---- MODULE Spec2Model ----
(***************************************************************************)
(* Verification model of the multimodal fusion and composite scoring core  *)
(* of InterviewInsight-AI (backend/app/analysis/multimodal_fusion.py,      *)
(* backend/app/scoring/*.py).                                              *)
(*                                                                         *)
(* Numbers.  The Python code computes with IEEE doubles.  The model        *)
(* computes with exact rationals <<n, d>> (d > 0, gcd(n, d) = 1), so a     *)
(* mean, a comparison or a clamp is the mathematical one, and round(x, k)  *)
(* is modelled as what it does: the nearest multiple of 10^-k, ties to     *)
(* even.  The inputs are chosen so that no rounding tie occurs.            *)
(***************************************************************************)
EXTENDS Integers, Sequences, FiniteSets, TLC

-----------------------------------------------------------------------------
(* Exact rational arithmetic                                               *)

AbsInt(i) == IF i < 0 THEN -i ELSE i

RECURSIVE GCD(_, _)
GCD(a, b) == IF b = 0 THEN a ELSE GCD(b, a % b)

\* the rational n/d in lowest terms with a positive denominator (d # 0)
Q(n, d) ==
    IF n = 0 THEN <<0, 1>>
    ELSE LET s == IF d < 0 THEN -1 ELSE 1
             g == GCD(AbsInt(n), AbsInt(d))
         IN  <<(s * n) \div g, (s * d) \div g>>

Zero == Q(0, 1)
One == Q(1, 1)
Hundred == Q(100, 1)

\* the operations reduce by common factors before they multiply, which keeps
\* the intermediate integers small
QAdd(a, b) ==
    IF a[1] = 0 THEN b
    ELSE IF b[1] = 0 THEN a
    ELSE LET g == GCD(a[2], b[2])
         IN  Q(a[1] * (b[2] \div g) + b[1] * (a[2] \div g), (a[2] \div g) * b[2])
QNeg(a) == <<-a[1], a[2]>>
QSub(a, b) == QAdd(a, QNeg(b))
QMul(a, b) ==
    IF a[1] = 0 \/ b[1] = 0 THEN <<0, 1>>
    ELSE LET g1 == GCD(AbsInt(a[1]), b[2])
             g2 == GCD(AbsInt(b[1]), a[2])
         IN  Q((a[1] \div g1) * (b[1] \div g2), (a[2] \div g2) * (b[2] \div g1))
QInv(a) == Q(a[2], a[1])
QDiv(a, b) == QMul(a, QInv(b))
QLt(a, b) ==
    /\ a # b
    /\ LET g == GCD(a[2], b[2])
       IN  a[1] * (b[2] \div g) < b[1] * (a[2] \div g)
QLe(a, b) == a = b \/ QLt(a, b)
QMax(a, b) == IF QLt(a, b) THEN b ELSE a
QMin(a, b) == IF QLt(b, a) THEN b ELSE a
QAbs(a) == <<AbsInt(a[1]), a[2]>>
QInt(i) == <<i, 1>>

RECURSIVE Pow10(_)
Pow10(k) == IF k = 0 THEN 1 ELSE 10 * Pow10(k - 1)

\* Python round(x, k): the nearest multiple of 10^-k, ties to the even one
QRound(x, k) ==
    IF x[2] = 1 THEN x ELSE
    LET g == GCD(Pow10(k), x[2])
        num == x[1] * (Pow10(k) \div g)
        den == x[2] \div g
        f == num \div den
        r == num % den
        up == \/ 2 * r > den
              \/ 2 * r = den /\ f % 2 # 0
    IN  Q(IF up THEN f + 1 ELSE f, Pow10(k))

\* the sum of a sequence of rationals; exact addition is associative, so the
\* two halves are added
RECURSIVE QSumRange(_, _, _)
QSumRange(s, lo, hi) ==
    IF hi < lo THEN Zero
    ELSE IF lo = hi THEN s[lo]
    ELSE QAdd(QSumRange(s, lo, (lo + hi) \div 2),
              QSumRange(s, ((lo + hi) \div 2) + 1, hi))

QSum(s) == QSumRange(s, 1, Len(s))

\* max and min of a non-empty sequence of rationals
QMaxOf(s) == s[CHOOSE i \in 1..Len(s) : \A j \in 1..Len(s) : QLe(s[j], s[i])]

QMinOf(s) == s[CHOOSE i \in 1..Len(s) : \A j \in 1..Len(s) : QLe(s[i], s[j])]

\* dict.get(key, default)
Get(rec, key, default) == IF key \in DOMAIN rec THEN rec[key] ELSE default

\* [f(item) for item in s]
MapSeq(s, F(_)) == [i \in 1..Len(s) |-> F(s[i])]

-----------------------------------------------------------------------------
(* Ordered dictionaries (Python dicts keep insertion order): a sequence of *)
(* <<key, value>> pairs with distinct keys.                                *)

DKeys(d) == [i \in 1..Len(d) |-> d[i][1]]
DHas(d, k) == \E i \in 1..Len(d) : d[i][1] = k
DVal(d, k) == d[CHOOSE i \in 1..Len(d) : d[i][1] = k][2]
\* d.get(k, default)
DGet(d, k, default) == IF DHas(d, k) THEN DVal(d, k) ELSE default

\* the distinct elements of s in order of first occurrence
RECURSIVE FirstSeen(_)
FirstSeen(s) ==
    IF s = <<>> THEN <<>>
    ELSE LET h == s[Len(s)]
             r == FirstSeen(SubSeq(s, 1, Len(s) - 1))
         IN  IF \E i \in 1..Len(r) : r[i] = h THEN r ELSE Append(r, h)

RECURSIVE Concat(_)
Concat(ss) == IF ss = <<>> THEN <<>> ELSE Head(ss) \o Concat(Tail(ss))

\* max(d, key=d.get) over an ordered dict of integers or rationals: the first
\* key, in insertion order, whose value no other key exceeds
FirstMaxKey(d, Less(_, _)) ==
    LET i == CHOOSE i \in 1..Len(d) :
                 /\ \A j \in 1..Len(d) : ~Less(d[i][2], d[j][2])
                 /\ \A j \in 1..(i - 1) : Less(d[j][2], d[i][2])
    IN  d[i][1]

IntLess(a, b) == a < b

-----------------------------------------------------------------------------
(* multimodal_fusion.py: helpers                                           *)

EmptyDict == <<>>
NoRecord == [x \in {} |-> Zero]

_clamp01(value) == QMax(Zero, QMin(One, value))

_mean(values) ==
    IF values = <<>> THEN Zero ELSE QDiv(QSum(values), QInt(Len(values)))

\* mutant: touching intervals count as overlapping
_overlap_closed(start_a, end_a, start_b, end_b) ==
    QLe(QMax(start_a, start_b), QMin(end_a, end_b))

_overlap(start_a, end_a, start_b, end_b) ==
    QLt(QMax(start_a, start_b), QMin(end_a, end_b))

\* a variant that leaves the transcript out
_max_time_untranscribed(video, audio_segments, text_segments) ==
    QMaxOf(<<Zero>>
           \o MapSeq(video, LAMBDA item : Get(item, "timestamp", Zero))
           \o MapSeq(audio_segments, LAMBDA item : Get(item, "end", Zero)))

_max_time(video, audio_segments, text_segments) ==
    QMaxOf(<<Zero>>
           \o MapSeq(video, LAMBDA item : Get(item, "timestamp", Zero))
           \o MapSeq(audio_segments, LAMBDA item : Get(item, "end", Zero))
           \o MapSeq(text_segments, LAMBDA item : Get(item, "end", Zero)))

_mean_emotions(video_slice) ==
    IF video_slice = <<>> THEN << <<"neutral", One>> >>
    ELSE LET dicts == MapSeq(video_slice,
                             LAMBDA item : Get(item, "facial_emotion_scores", EmptyDict))
             labels == FirstSeen(Concat(MapSeq(dicts, DKeys)))
             total(label) == QSum(MapSeq(dicts, LAMBDA d : DGet(d, label, Zero)))
             count == QInt(Len(video_slice))
         IN  [i \in 1..Len(labels) |-> <<labels[i], QDiv(total(labels[i]), count)>>]

HeadPoseOf(item, axis) == Get(Get(item, "head_pose", NoRecord), axis, Zero)

_mean_head_pose(video_slice) ==
    IF video_slice = <<>> THEN [yaw |-> Zero, pitch |-> Zero, roll |-> Zero]
    ELSE [yaw |-> _mean(MapSeq(video_slice, LAMBDA item : HeadPoseOf(item, "yaw"))),
          pitch |-> _mean(MapSeq(video_slice, LAMBDA item : HeadPoseOf(item, "pitch"))),
          roll |-> _mean(MapSeq(video_slice, LAMBDA item : HeadPoseOf(item, "roll")))]

\* mutant: an empty slice reports the gaze as centered
_dominant_gaze_center_default(video_slice) ==
    IF video_slice = <<>> THEN "center"
    ELSE Get(video_slice[1], "gaze_direction", "unknown")

\* a variant that returns the label last seen among those that tie
_dominant_gaze_last(video_slice) ==
    IF video_slice = <<>> THEN "unknown"
    ELSE LET gazes == MapSeq(video_slice,
                             LAMBDA item : Get(item, "gaze_direction", "unknown"))
             keys == FirstSeen(gazes)
             counts == [i \in 1..Len(keys) |->
                          <<keys[Len(keys) + 1 - i],
                            Cardinality({j \in 1..Len(gazes) :
                                            gazes[j] = keys[Len(keys) + 1 - i]})>>]
         IN  FirstMaxKey(counts, IntLess)

_dominant_gaze(video_slice) ==
    IF video_slice = <<>> THEN "unknown"
    ELSE LET gazes == MapSeq(video_slice,
                             LAMBDA item : Get(item, "gaze_direction", "unknown"))
             keys == FirstSeen(gazes)
             counts == [i \in 1..Len(keys) |->
                          <<keys[i], Cardinality({j \in 1..Len(gazes) : gazes[j] = keys[i]})>>]
         IN  FirstMaxKey(counts, IntLess)

LogMelStd(item) == Get(Get(item, "prosody", NoRecord), "log_mel_std", Zero)

_mean_speech(audio_slice) ==
    IF audio_slice = <<>>
    THEN [pitch |-> Zero, pause_duration |-> Zero, speaking_rate |-> Zero,
          prosody_score |-> Zero]
    ELSE [pitch |-> _mean(MapSeq(audio_slice, LAMBDA item : Get(item, "pitch", Zero))),
          pause_duration |->
              _mean(MapSeq(audio_slice, LAMBDA item : Get(item, "pause_duration", Zero))),
          speaking_rate |->
              _mean(MapSeq(audio_slice, LAMBDA item : Get(item, "speaking_rate", Zero))),
          prosody_score |-> _mean(MapSeq(audio_slice, LogMelStd))]

_mean_text_scores(text_slice) ==
    IF text_slice = <<>>
    THEN [semantic_relevance |-> Zero, sentiment_score |-> Zero,
          answer_coherence |-> Zero]
    ELSE [semantic_relevance |->
              _mean(MapSeq(text_slice, LAMBDA item : Get(item, "semantic_relevance", Zero))),
          sentiment_score |->
              _mean(MapSeq(text_slice, LAMBDA item : Get(item, "sentiment_score", Zero))),
          answer_coherence |->
              _mean(MapSeq(text_slice, LAMBDA item : Get(item, "answer_coherence", Zero)))]

\* use_learned_fusion = False (or no numeric backend): the rounded identity
_apply_fusion(raw_vector) == MapSeq(raw_vector, LAMBDA value : QRound(value, 6))

\* mutant: the window is closed at its end
VideoSlice_closed(video, from, to) ==
    SelectSeq(video, LAMBDA item : /\ QLe(from, Get(item, "timestamp", Zero))
                                   /\ QLe(Get(item, "timestamp", Zero), to))

\* lines 26-36: the items one window [cursor, end_time) selects
VideoSlice(video, from, to) ==
    SelectSeq(video, LAMBDA item : /\ QLe(from, Get(item, "timestamp", Zero))
                                   /\ QLt(Get(item, "timestamp", Zero), to))

SegmentSlice(segments, from, to) ==
    SelectSeq(segments, LAMBDA item :
        _overlap(from, to, Get(item, "start", Zero), Get(item, "end", Zero)))

\* mutant: pitch and speaking rate change places
RawVector_swapped(facial_emotions, speech_features, text_scores, gaze_direction) ==
    << DGet(facial_emotions, "happy", Zero),
       DGet(facial_emotions, "neutral", Zero),
       DGet(facial_emotions, "sad", Zero),
       Get(speech_features, "pitch", Zero),
       Get(speech_features, "speaking_rate", Zero),
       Get(speech_features, "pause_duration", Zero),
       Get(text_scores, "semantic_relevance", Zero),
       Get(text_scores, "sentiment_score", Zero),
       Get(text_scores, "answer_coherence", Zero),
       IF gaze_direction = "center" THEN One ELSE Zero >>

\* lines 44-55
RawVector(facial_emotions, speech_features, text_scores, gaze_direction) ==
    << DGet(facial_emotions, "happy", Zero),
       DGet(facial_emotions, "neutral", Zero),
       DGet(facial_emotions, "sad", Zero),
       Get(speech_features, "speaking_rate", Zero),
       Get(speech_features, "pitch", Zero),
       Get(speech_features, "pause_duration", Zero),
       Get(text_scores, "semantic_relevance", Zero),
       Get(text_scores, "sentiment_score", Zero),
       Get(text_scores, "answer_coherence", Zero),
       IF gaze_direction = "center" THEN One ELSE Zero >>

\* lines 25-69: the window that starts at from
FusedWindow(video, audio, text, from, size) ==
    LET end_time == QAdd(from, size)
        video_slice == VideoSlice(video, from, end_time)
        audio_slice == SegmentSlice(audio, from, end_time)
        text_slice == SegmentSlice(text, from, end_time)
        facial_emotions == _mean_emotions(video_slice)
        gaze_direction == _dominant_gaze(video_slice)
        speech_features == _mean_speech(audio_slice)
        text_scores == _mean_text_scores(text_slice)
    IN  [startTime |-> QRound(from, 3),
         endTime |-> QRound(end_time, 3),
         facialEmotionScores |-> facial_emotions,
         headPose |-> _mean_head_pose(video_slice),
         gazeDirection |-> gaze_direction,
         speechFeatures |-> speech_features,
         textScores |-> text_scores,
         fusedVector |-> _apply_fusion(RawVector(facial_emotions, speech_features,
                                                 text_scores, gaze_direction))]

-----------------------------------------------------------------------------
(* multimodal_fusion.py: session metrics                                   *)

_dominant_emotion(emotion_scores) ==
    IF emotion_scores = <<>> THEN "neutral" ELSE FirstMaxKey(emotion_scores, QLt)

\* lines 72-81
EmotionTrajectory(video) ==
    IF video = <<>>
    THEN << [timestamp |-> Zero, dominantEmotion |-> "neutral",
             emotionScores |-> << <<"neutral", One>> >>] >>
    ELSE MapSeq(video, LAMBDA item :
             [timestamp |-> Get(item, "timestamp", Zero),
              dominantEmotion |->
                  _dominant_emotion(Get(item, "facial_emotion_scores", EmptyDict)),
              emotionScores |-> Get(item, "facial_emotion_scores", EmptyDict)])

\* a variant whose speaking rate is averaged over the windows that have audio
_engagement_metrics_spoken(video, segments) ==
    LET eye_contact_ratio ==
            IF video # <<>>
            THEN _mean(MapSeq(video, LAMBDA item : Get(item, "eye_contact", Zero)))
            ELSE Zero
        head_stability ==
            IF video # <<>>
            THEN _mean(MapSeq(video, LAMBDA item :
                     QDiv(One, QAdd(One, QAdd(QAbs(HeadPoseOf(item, "yaw")),
                                              QAbs(HeadPoseOf(item, "pitch")))))))
            ELSE Zero
        avg_speaking_rate ==
            _mean(MapSeq(SelectSeq(segments, LAMBDA seg : seg.speechFeatures.speaking_rate # Zero),
                         LAMBDA seg : seg.speechFeatures.speaking_rate))
        speaking_component ==
            IF QLt(Zero, avg_speaking_rate)
            THEN QMin(One, QDiv(avg_speaking_rate, QInt(140)))
            ELSE Zero
        overall ==
            QMax(Zero, QMin(One,
                QAdd(QAdd(QMul(eye_contact_ratio, Q(1, 2)),
                          QMul(head_stability, Q(3, 10))),
                     QMul(speaking_component, Q(1, 5)))))
    IN  [overallEngagement |-> overall,
         eyeContactRatio |-> eye_contact_ratio,
         avgHeadStability |-> head_stability,
         avgSpeakingRateWpm |-> avg_speaking_rate]

_engagement_metrics(video, segments) ==
    LET eye_contact_ratio ==
            IF video # <<>>
            THEN _mean(MapSeq(video, LAMBDA item : Get(item, "eye_contact", Zero)))
            ELSE Zero
        head_stability ==
            IF video # <<>>
            THEN _mean(MapSeq(video, LAMBDA item :
                     QDiv(One, QAdd(One, QAdd(QAbs(HeadPoseOf(item, "yaw")),
                                              QAbs(HeadPoseOf(item, "pitch")))))))
            ELSE Zero
        avg_speaking_rate ==
            _mean(MapSeq(segments, LAMBDA seg :
                      Get(Get(seg, "speechFeatures", NoRecord), "speaking_rate", Zero)))
        speaking_component ==
            IF QLt(Zero, avg_speaking_rate)
            THEN QMin(One, QDiv(avg_speaking_rate, QInt(140)))
            ELSE Zero
        overall ==
            QMax(Zero, QMin(One,
                QAdd(QAdd(QMul(eye_contact_ratio, Q(1, 2)),
                          QMul(head_stability, Q(3, 10))),
                     QMul(speaking_component, Q(1, 5)))))
    IN  [overallEngagement |-> overall,
         eyeContactRatio |-> eye_contact_ratio,
         avgHeadStability |-> head_stability,
         avgSpeakingRateWpm |-> avg_speaking_rate]

\* a variant that reads the first audio segment only
_speech_quality_metrics_first(audio_segments) ==
    IF audio_segments = <<>>
    THEN [averagePitch |-> Zero, averagePauseDuration |-> Zero,
          speakingRateWpm |-> Zero, prosodyScore |-> Zero]
    ELSE [averagePitch |-> Get(audio_segments[1], "pitch", Zero),
          averagePauseDuration |-> Get(audio_segments[1], "pause_duration", Zero),
          speakingRateWpm |-> Get(audio_segments[1], "speaking_rate", Zero),
          prosodyScore |-> LogMelStd(audio_segments[1])]

_speech_quality_metrics(audio_segments) ==
    IF audio_segments = <<>>
    THEN [averagePitch |-> Zero, averagePauseDuration |-> Zero,
          speakingRateWpm |-> Zero, prosodyScore |-> Zero]
    ELSE [averagePitch |->
              _mean(MapSeq(audio_segments, LAMBDA item : Get(item, "pitch", Zero))),
          averagePauseDuration |->
              _mean(MapSeq(audio_segments,
                           LAMBDA item : Get(item, "pause_duration", Zero))),
          speakingRateWpm |->
              _mean(MapSeq(audio_segments,
                           LAMBDA item : Get(item, "speaking_rate", Zero))),
          prosodyScore |-> _mean(MapSeq(audio_segments, LogMelStd))]

\* 1 - min(|rate - 135| / 135, 1), clamped to [0, 1]
RateQuality(speaking_rate) ==
    _clamp01(QSub(One, QMin(QDiv(QAbs(QSub(speaking_rate, QInt(135))), QInt(135)),
                            One)))

\* 1 - min(pause / 1.5, 1), clamped to [0, 1]
PauseQuality(pause) ==
    _clamp01(QSub(One, QMin(QDiv(pause, Q(3, 2)), One)))

\* (sentiment + 1) / 2, clamped to [0, 1]
SentimentComponent(sentiment) ==
    _clamp01(QDiv(QAdd(sentiment, One), QInt(2)))

Percent2(x) == QRound(QMul(x, Hundred), 2)

_summary_scores(engagement_metrics, speech_quality_metrics, segments) ==
    LET engagement == _clamp01(Get(engagement_metrics, "overallEngagement", Zero))
        avg_sentiment ==
            _mean(MapSeq(segments, LAMBDA seg :
                      Get(Get(seg, "textScores", NoRecord), "sentiment_score", Zero)))
        sentiment_component == SentimentComponent(avg_sentiment)
        eye_contact == _clamp01(Get(engagement_metrics, "eyeContactRatio", Zero))
        head_stability == _clamp01(Get(engagement_metrics, "avgHeadStability", Zero))
        confidence ==
            _clamp01(QAdd(QAdd(QMul(eye_contact, Q(9, 20)),
                               QMul(head_stability, Q(1, 4))),
                          QMul(sentiment_component, Q(3, 10))))
        speaking_rate == Get(speech_quality_metrics, "speakingRateWpm", Zero)
        avg_pause == Get(speech_quality_metrics, "averagePauseDuration", Zero)
        speech_fluency ==
            _clamp01(QAdd(QMul(RateQuality(speaking_rate), Q(7, 10)),
                          QMul(PauseQuality(avg_pause), Q(3, 10))))
        emotions ==
            SelectSeq(MapSeq(segments,
                             LAMBDA seg : Get(seg, "facialEmotionScores", EmptyDict)),
                      LAMBDA d : d # <<>>)
        neutral_scores ==
            IF emotions # <<>>
            THEN MapSeq(emotions, LAMBDA d : _clamp01(DGet(d, "neutral", Zero)))
            ELSE <<Q(1, 2)>>
        emotional_stability == _clamp01(_mean(neutral_scores))
    IN  [engagementScore |-> Percent2(engagement),
         confidenceScore |-> Percent2(confidence),
         speechFluency |-> Percent2(speech_fluency),
         emotionalStability |-> Percent2(emotional_stability)]

\* the label of the idx-th window (idx from 1)
\* a variant that does not clamp the relevance
SegmentLabel_unclamped(segment, idx) ==
    LET text_scores == Get(segment, "textScores", NoRecord)
        speech == Get(segment, "speechFeatures", NoRecord)
        facial == Get(segment, "facialEmotionScores", EmptyDict)
        speaking_rate == Get(speech, "speaking_rate", Zero)
        pause_duration == Get(speech, "pause_duration", Zero)
        speech_fluency ==
            QAdd(QMul(RateQuality(speaking_rate), Q(4, 5)),
                 QMul(PauseQuality(pause_duration), Q(1, 5)))
        sentiment_component ==
            SentimentComponent(Get(text_scores, "sentiment_score", Zero))
        engagement ==
            _clamp01(QAdd(QAdd(QMul(DGet(facial, "happy", Zero), Q(2, 5)),
                               QMul(DGet(facial, "neutral", Zero), Q(3, 10))),
                          QMul(sentiment_component, Q(3, 10))))
    IN  [segmentId |-> <<"segment_", idx>>,
         label |-> <<"Question Segment ", idx>>,
         startTime |-> Get(segment, "startTime", Zero),
         endTime |-> Get(segment, "endTime", Zero),
         engagementScore |-> Percent2(engagement),
         speechFluency |-> Percent2(_clamp01(speech_fluency)),
         textRelevanceScore |->
             Percent2(Get(text_scores, "semantic_relevance", Zero)),
         dominantEmotion |-> _dominant_emotion(facial),
         emotionAverages |-> facial,
         speechQualityMetrics |-> speech]

SegmentLabel(segment, idx) ==
    LET text_scores == Get(segment, "textScores", NoRecord)
        speech == Get(segment, "speechFeatures", NoRecord)
        facial == Get(segment, "facialEmotionScores", EmptyDict)
        speaking_rate == Get(speech, "speaking_rate", Zero)
        pause_duration == Get(speech, "pause_duration", Zero)
        speech_fluency ==
            QAdd(QMul(RateQuality(speaking_rate), Q(4, 5)),
                 QMul(PauseQuality(pause_duration), Q(1, 5)))
        sentiment_component ==
            SentimentComponent(Get(text_scores, "sentiment_score", Zero))
        engagement ==
            _clamp01(QAdd(QAdd(QMul(DGet(facial, "happy", Zero), Q(2, 5)),
                               QMul(DGet(facial, "neutral", Zero), Q(3, 10))),
                          QMul(sentiment_component, Q(3, 10))))
    IN  [segmentId |-> <<"segment_", idx>>,
         label |-> <<"Question Segment ", idx>>,
         startTime |-> Get(segment, "startTime", Zero),
         endTime |-> Get(segment, "endTime", Zero),
         engagementScore |-> Percent2(engagement),
         speechFluency |-> Percent2(_clamp01(speech_fluency)),
         textRelevanceScore |->
             Percent2(_clamp01(Get(text_scores, "semantic_relevance", Zero))),
         dominantEmotion |-> _dominant_emotion(facial),
         emotionAverages |-> facial,
         speechQualityMetrics |-> speech]

_segment_labels(segments) ==
    [idx \in 1..Len(segments) |-> SegmentLabel(segments[idx], idx)]

_timeline_arrays(video, emotion_trajectory, segments) ==
    LET mid(segment) ==
            QDiv(QAdd(Get(segment, "startTime", Zero), Get(segment, "endTime", Zero)),
                 QInt(2))
        confidence(segment) ==
            _clamp01(QAdd(QAdd(
                QMul(Q(2, 5),
                     IF Get(segment, "gazeDirection", "") = "center" THEN One ELSE Zero),
                QMul(Q(1, 5),
                     _clamp01(QSub(One,
                         QMin(QDiv(QAbs(Get(Get(segment, "headPose", NoRecord),
                                            "yaw", Zero)),
                                   QInt(45)), One))))),
                QMul(Q(2, 5),
                     SentimentComponent(Get(Get(segment, "textScores", NoRecord),
                                            "sentiment_score", Zero)))))
        engagement_point(segment) ==
            [timestamp |-> QRound(mid(segment), 3),
             engagement |->
                 Percent2(_clamp01(QAdd(
                     Get(segment, "fusedVector", <<Zero>>)[1],
                     QMul(DGet(Get(segment, "facialEmotionScores", EmptyDict),
                               "neutral", Zero), Q(1, 5))))),
             confidence |-> Percent2(confidence(segment))]
        speech_point(segment) ==
            LET speech == Get(segment, "speechFeatures", NoRecord)
            IN  [timestamp |-> QRound(mid(segment), 3),
                 speakingRate |-> Get(speech, "speaking_rate", Zero),
                 pitch |-> Get(speech, "pitch", Zero),
                 pauseDuration |-> Get(speech, "pause_duration", Zero),
                 fluency |-> Percent2(RateQuality(Get(speech, "speaking_rate", Zero)))]
        gaze_point(item) ==
            [timestamp |-> QRound(Get(item, "timestamp", Zero), 3),
             headYaw |-> HeadPoseOf(item, "yaw"),
             headPitch |-> HeadPoseOf(item, "pitch"),
             headRoll |-> HeadPoseOf(item, "roll"),
             eyeContact |-> Percent2(Get(item, "eye_contact", Zero)),
             gazeDirection |-> Get(item, "gaze_direction", "unknown")]
    IN  [emotionTimeline |-> emotion_trajectory,
         engagementTimeline |-> MapSeq(segments, engagement_point),
         speechTimeline |-> MapSeq(segments, speech_point),
         gazeHeadPoseTimeline |-> MapSeq(video, gaze_point)]

\* a variant without the cap
FirstThree_uncapped(s) == s

FirstThree(s) == SubSeq(s, 1, IF Len(s) < 3 THEN Len(s) ELSE 3)

Threshold70 == QInt(70)

\* one of the four threshold checks: a strength at or above 70, else an
\* improvement
CheckStrength(score, text) == IF QLe(Threshold70, score) THEN <<text>> ELSE <<>>
CheckImprovement(score, text) == IF QLe(Threshold70, score) THEN <<>> ELSE <<text>>

_feedback_summary(summary_scores, speech_quality_metrics, engagement_metrics) ==
    LET all_strengths ==
            CheckStrength(summary_scores.engagementScore,
                "Strong engagement maintained across most of the interview.")
            \o CheckStrength(summary_scores.confidenceScore,
                "Confident delivery with good visual presence.")
            \o CheckStrength(summary_scores.speechFluency,
                "Speech fluency is consistent with a professional pace.")
            \o CheckStrength(summary_scores.emotionalStability,
                "Emotional stability appears steady and composed.")
            \o (IF QLt(Q(3, 4), Get(engagement_metrics, "eyeContactRatio", Zero))
                THEN <<"Excellent eye contact contributes to credibility.">>
                ELSE <<>>)
        all_improvements ==
            CheckImprovement(summary_scores.engagementScore,
                "Increase on-camera engagement and maintain steadier eye contact.")
            \o CheckImprovement(summary_scores.confidenceScore,
                "Boost confidence by reducing hesitation and improving posture consistency.")
            \o CheckImprovement(summary_scores.speechFluency,
                "Work on pacing and reducing long pauses between key points.")
            \o CheckImprovement(summary_scores.emotionalStability,
                "Aim for steadier emotional tone during challenging answers.")
            \o (IF QLt(Q(4, 5), Get(speech_quality_metrics, "averagePauseDuration", Zero))
                THEN <<"Shorten pauses by practicing concise response structures.">>
                ELSE <<>>)
        strengths ==
            IF FirstThree(all_strengths) # <<>> THEN FirstThree(all_strengths)
            ELSE <<"Consistent participation across recorded segments.">>
        improvements ==
            IF FirstThree(all_improvements) # <<>> THEN FirstThree(all_improvements)
            ELSE <<"Continue refining storytelling depth for stronger impact.">>
    IN  [strengths |-> strengths,
         improvements |-> improvements,
         \* the sentences the text joins with spaces
         suggestedFeedbackText |->
             <<"Top strengths:">> \o strengths
                 \o <<"Primary improvements:">> \o improvements]

\* lines 72-99: what the call returns
FusedOutput(video, audio, segments) ==
    LET emotion_trajectory == EmotionTrajectory(video)
        engagement_metrics == _engagement_metrics(video, segments)
        speech_quality_metrics == _speech_quality_metrics(audio)
        summary_scores ==
            _summary_scores(engagement_metrics, speech_quality_metrics, segments)
    IN  [engagement_metrics |-> engagement_metrics,
         emotion_trajectory |-> emotion_trajectory,
         speech_quality_metrics |-> speech_quality_metrics,
         fused_feature_vectors |-> segments,
         summary_scores |-> summary_scores,
         segment_labels |-> _segment_labels(segments),
         timeline_arrays |-> _timeline_arrays(video, emotion_trajectory, segments),
         feedback_summary |->
             _feedback_summary(summary_scores, speech_quality_metrics,
                               engagement_metrics)]

-----------------------------------------------------------------------------
(* scoring/scoring_models.py                                               *)

None == <<>>

\* float literals with four decimals
D4(n) == Q(n, 10000)

\* math.exp(x) raises OverflowError for x above ln(DBL_MAX) = 709.78...
ExpOverflowsAbove == Q(70978, 100)

\* 100 / (1 + e^-x) in hundredths at x = -10, -9.5, ..., 10
LogisticTable ==
    << 0, 1, 1, 2, 3, 6, 9, 15, 25, 41, 67, 110, 180, 293, 474, 759, 1192, 1824, 2689, 3775, 5000, 6225, 7311, 8176, 8808, 9241, 9526, 9707, 9820, 9890, 9933, 9959, 9975, 9985, 9991, 9994, 9997, 9998, 9999, 9999, 10000 >>

\* 100 / (1 + exp(-value)): the logistic curve is modelled by linear
\* interpolation between its values at the multiples of 1/2 (0 below -10, 100
\* above 10), at the argument taken to three decimals
Logistic100(value) ==
    IF QLe(value, QInt(-10)) THEN Zero
    ELSE IF QLe(QInt(10), value) THEN Hundred
    ELSE LET steps == QMul(QAdd(QRound(value, 3), QInt(10)), QInt(2))
             k == steps[1] \div steps[2]
             lo == Q(LogisticTable[k + 1], 100)
             hi == Q(LogisticTable[k + 2], 100)
         IN  QAdd(lo, QMul(QSub(steps, QInt(k)), QSub(hi, lo)))

\* line 103: math.exp(-value) overflows
SigmoidRaises(value) == QLt(ExpOverflowsAbove, QNeg(value))

_sigmoid_to_100(value) == QMax(Zero, QMin(Hundred, Logistic100(value)))

\* sum(weights[i] * features[i] for i in range(lo - 1, hi)); exact addition is
\* associative, so the two halves are added
RECURSIVE DotRange(_, _, _, _)
DotRange(weights, features, lo, hi) ==
    IF hi < lo THEN Zero
    ELSE IF lo = hi THEN QMul(weights[lo], features[lo])
    ELSE QAdd(DotRange(weights, features, lo, (lo + hi) \div 2),
              DotRange(weights, features, ((lo + hi) \div 2) + 1, hi))

Dot(weights, features, limit) == DotRange(weights, features, 1, limit)

\* RegressionHead.predict, lines 20-23: the value handed to the sigmoid
HeadRaw(head, features) ==
    LET limit == IF Len(features) < Len(head.weights) THEN Len(features)
                 ELSE Len(head.weights)
    IN  QAdd(head.bias, Dot(head.weights, features, limit))

\* _sigmoid_to_100 as a call: [raised, value]
SigmoidOutcome(value) ==
    IF SigmoidRaises(value) THEN [raised |-> TRUE, value |-> Zero]
    ELSE [raised |-> FALSE, value |-> _sigmoid_to_100(value)]

\* RegressionHead.predict: [raised, value]
HeadPredict(head, features) ==
    IF features = <<>> THEN [raised |-> FALSE, value |-> Q(50, 1)]
    ELSE SigmoidOutcome(HeadRaw(head, features))

confidence_head ==
    [weights |-> <<D4(4500), D4(3200), D4(-3000), D4(40), D4(10), D4(-2500),
                   D4(2800), D4(3500), D4(2400), D4(4200)>>,
     bias |-> D4(-1500)]

communication_head ==
    [weights |-> <<D4(2800), D4(2200), D4(-1800), D4(50), D4(6), D4(-2000),
                   D4(5500), D4(2600), D4(5000), D4(2500)>>,
     bias |-> D4(-1200)]

readiness_head ==
    [weights |-> <<D4(3000), D4(2500), D4(-2200), D4(40), D4(8), D4(-1800),
                   D4(4000), D4(2200), D4(4000), D4(3500)>>,
     bias |-> D4(-1000)]

PadTo(vector, n) == vector \o [i \in 1..(n - Len(vector)) |-> Zero]

MaxLen(vectors) ==
    CHOOSE n \in {Len(vectors[i]) : i \in 1..Len(vectors)} :
        \A i \in 1..Len(vectors) : Len(vectors[i]) <= n

_pool_fused_vectors(fused_feature_vectors) ==
    LET vectors ==
            SelectSeq(MapSeq(fused_feature_vectors,
                             LAMBDA item : Get(item, "fusedVector", <<>>)),
                      LAMBDA vector : vector # <<>>)
    IN  IF fused_feature_vectors = <<>> \/ vectors = <<>> THEN [i \in 1..10 |-> Zero]
        ELSE LET length == MaxLen(vectors)
                 padded == MapSeq(vectors, LAMBDA vector : PadTo(vector, length))
                 pooled == [c \in 1..length |->
                               QDiv(QSum(MapSeq(padded, LAMBDA vector : vector[c])),
                                    QInt(Len(padded)))]
             IN  SubSeq(PadTo(pooled, 10), 1, 10)

\* InterviewReadinessModel.predict, lines 69-77: the returned dict, or the
\* exception of the first head that raises
ReadinessOutcome(confidence, communication, readiness) ==
    IF confidence.raised \/ communication.raised \/ readiness.raised
    THEN [raised |-> TRUE]
    ELSE [raised |-> FALSE,
          confidence |-> QRound(confidence.value, 2),
          communicationEffectiveness |-> QRound(communication.value, 2),
          interviewReadiness |-> QRound(readiness.value, 2)]

PredictPooled(pooled_features) ==
    ReadinessOutcome(HeadPredict(confidence_head, pooled_features),
                     HeadPredict(communication_head, pooled_features),
                     HeadPredict(readiness_head, pooled_features))

\* InterviewReadinessModel.predict: [raised, confidence, ...]
ReadinessPredict(fused_feature_vectors) ==
    PredictPooled(_pool_fused_vectors(fused_feature_vectors))

-----------------------------------------------------------------------------
(* scoring/rubric.py                                                       *)

RubricTitles ==
    [communication |-> "Communication", technical_clarity |-> "Technical Clarity",
     behavioral_response |-> "Behavioral Response", engagement |-> "Engagement"]

\* RUBRIC_DIMENSIONS[dimension]["levels"]: the same three thresholds for every
\* dimension, each with its own descriptor (named here by dimension and level)
RubricLevels(dimension) ==
    << [min_score |-> Q(85, 1), label |-> "Excellent",
        descriptor |-> <<dimension, "Excellent">>],
       [min_score |-> Q(70, 1), label |-> "Good",
        descriptor |-> <<dimension, "Good">>],
       [min_score |-> Zero, label |-> "Needs Improvement",
        descriptor |-> <<dimension, "Needs Improvement">>] >>

\* a variant whose thresholds are exclusive
score_to_level_above(score, levels) ==
    LET value == QMax(Zero, QMin(Hundred, score))
    IN  IF \E i \in 1..Len(levels) : QLt(levels[i].min_score, value)
        THEN levels[CHOOSE i \in 1..Len(levels) :
                        /\ QLt(levels[i].min_score, value)
                        /\ \A j \in 1..(i - 1) : ~QLt(levels[j].min_score, value)]
        ELSE levels[Len(levels)]

score_to_level(score, levels) ==
    LET value == QMax(Zero, QMin(Hundred, score))
    IN  IF \E i \in 1..Len(levels) : QLe(levels[i].min_score, value)
        THEN levels[CHOOSE i \in 1..Len(levels) :
                        /\ QLe(levels[i].min_score, value)
                        /\ \A j \in 1..(i - 1) : ~QLe(levels[j].min_score, value)]
        ELSE levels[Len(levels)]

\* a variant that takes the first truthy value of the chain
_resolve_dimension_score_truthy(primary, fallback, default) ==
    LET first == IF primary # None /\ primary # Zero THEN primary
                 ELSE IF fallback # None /\ fallback # Zero THEN fallback
                 ELSE default
    IN  IF first = None THEN Zero ELSE QMax(Zero, QMin(Hundred, first))

_resolve_dimension_score(primary, fallback, default) ==
    LET first == IF primary # None THEN primary
                 ELSE IF fallback # None THEN fallback
                 ELSE default
    IN  IF first = None THEN Zero ELSE QMax(Zero, QMin(Hundred, first))

RubricEntry(dimension, score) ==
    LET level == score_to_level(score, RubricLevels(dimension))
    IN  [title |-> RubricTitles[dimension],
         description |-> <<dimension, "description">>,
         score |-> QRound(score, 2),
         level |-> level.label,
         descriptor |-> level.descriptor]

map_scores_to_rubric(summary_scores, advanced_scores) ==
    [communication |->
         RubricEntry("communication",
             _resolve_dimension_score(
                 Get(summary_scores, "communicationEffectiveness", None),
                 Get(advanced_scores, "communicationClarity", None),
                 Get(summary_scores, "speechFluency", Zero))),
     technical_clarity |->
         RubricEntry("technical_clarity",
             _resolve_dimension_score(
                 Get(advanced_scores, "interviewComprehension", None),
                 Get(summary_scores, "contentRelevanceScore", None),
                 Get(summary_scores, "speechFluency", Zero))),
     behavioral_response |->
         RubricEntry("behavioral_response",
             _resolve_dimension_score(
                 Get(summary_scores, "overallPerformanceScore", None),
                 Get(advanced_scores, "overallPerformance", None),
                 Get(summary_scores, "emotionalStability", Zero))),
     engagement |->
         RubricEntry("engagement",
             _resolve_dimension_score(
                 Get(summary_scores, "engagementScore", None),
                 Get(advanced_scores, "engagement", None),
                 Q(50, 1)))]

-----------------------------------------------------------------------------
(* scoring/score_calculator.py: compute_session_scores                     *)

_clamp(value, low, high) == QMax(low, QMin(high, value))

_normalize_percent(value) ==
    IF QLe(value, One) THEN _clamp(QMul(value, Hundred), Zero, Hundred)
    ELSE _clamp(value, Zero, Hundred)

\* statistics.mean of a non-empty list
Mean(values) == QDiv(QSum(values), QInt(Len(values)))

\* statistics.pvariance of a non-empty list
PVariance(values) ==
    LET mu == Mean(values)
    IN  Mean(MapSeq(values, LAMBDA x : QMul(QSub(x, mu), QSub(x, mu))))

CountOf(s, x) == Cardinality({i \in 1..Len(s) : s[i] = x})

\* abs(yaw) + abs(pitch) + abs(roll) of a window's headPose
HeadMotion(item) ==
    LET head_pose == Get(item, "headPose", NoRecord)
    IN  QAdd(QAdd(QAbs(Get(head_pose, "yaw", Zero)), QAbs(Get(head_pose, "pitch", Zero))),
             QAbs(Get(head_pose, "roll", Zero)))

\* a variant without the substitutes for an empty window list
compute_engagement_score_no_defaults(engagement_metrics, fused_feature_vectors) ==
    LET eye_contact_score ==
            _normalize_percent(Get(engagement_metrics, "eyeContactRatio", Zero))
        gazes == MapSeq(fused_feature_vectors,
                        LAMBDA item : Get(item, "gazeDirection", "unknown"))
        n == Len(gazes)
        max_count == CHOOSE c \in {CountOf(gazes, gazes[i]) : i \in 1..n} :
                         \A i \in 1..n : CountOf(gazes, gazes[i]) <= c
        gaze_stability ==
            IF n > 0
            THEN QMul(QAdd(QMul(Q(max_count, n), Q(1, 2)),
                           QMul(Q(CountOf(gazes, "center"), n), Q(1, 2))),
                      Hundred)
            ELSE Zero
        avg_head_motion ==
            IF n > 0 THEN Mean(MapSeq(fused_feature_vectors, HeadMotion))
            ELSE Zero
        head_motion_score ==
            _clamp(QSub(Hundred, QMul(avg_head_motion, Q(3, 2))), Zero, Hundred)
        score == QAdd(QAdd(QMul(eye_contact_score, Q(2, 5)),
                           QMul(gaze_stability, Q(7, 20))),
                      QMul(head_motion_score, Q(1, 4)))
    IN  [score |-> _clamp(score, Zero, Hundred),
         details |-> [eyeContactScore |-> QRound(eye_contact_score, 2),
                      gazeStabilityScore |-> QRound(gaze_stability, 2),
                      headMotionScore |-> QRound(head_motion_score, 2)]]

compute_engagement_score(engagement_metrics, fused_feature_vectors) ==
    LET eye_contact_score ==
            _normalize_percent(Get(engagement_metrics, "eyeContactRatio", Zero))
        gazes == MapSeq(fused_feature_vectors,
                        LAMBDA item : Get(item, "gazeDirection", "unknown"))
        n == Len(gazes)
        max_count == CHOOSE c \in {CountOf(gazes, gazes[i]) : i \in 1..n} :
                         \A i \in 1..n : CountOf(gazes, gazes[i]) <= c
        gaze_stability ==
            IF n > 0
            THEN QMul(QAdd(QMul(Q(max_count, n), Q(1, 2)),
                           QMul(Q(CountOf(gazes, "center"), n), Q(1, 2))),
                      Hundred)
            ELSE Q(40, 1)
        avg_head_motion ==
            IF n > 0 THEN Mean(MapSeq(fused_feature_vectors, HeadMotion))
            ELSE Q(20, 1)
        head_motion_score ==
            _clamp(QSub(Hundred, QMul(avg_head_motion, Q(3, 2))), Zero, Hundred)
        score == QAdd(QAdd(QMul(eye_contact_score, Q(2, 5)),
                           QMul(gaze_stability, Q(7, 20))),
                      QMul(head_motion_score, Q(1, 4)))
    IN  [score |-> _clamp(score, Zero, Hundred),
         details |-> [eyeContactScore |-> QRound(eye_contact_score, 2),
                      gazeStabilityScore |-> QRound(gaze_stability, 2),
                      headMotionScore |-> QRound(head_motion_score, 2)]]

compute_emotional_regulation_score(emotion_trajectory) ==
    IF emotion_trajectory = <<>>
    THEN [score |-> Q(50, 1),
          details |-> [dominantEmotionVariance |-> Zero,
                       averageEmotionVariance |-> Zero]]
    ELSE LET dicts ==
                 SelectSeq(MapSeq(emotion_trajectory,
                                  LAMBDA point : Get(point, "emotionScores", EmptyDict)),
                           LAMBDA d : d # <<>>)
             dominant_scores ==
                 MapSeq(dicts, LAMBDA d : QMaxOf(MapSeq(d, LAMBDA pr : pr[2])))
             labels == FirstSeen(Concat(MapSeq(dicts, DKeys)))
             series(label) ==
                 MapSeq(SelectSeq(dicts, LAMBDA d : DHas(d, label)),
                        LAMBDA d : DVal(d, label))
             dominant_var ==
                 IF Len(dominant_scores) > 1 THEN PVariance(dominant_scores) ELSE Zero
             label_vars ==
                 MapSeq(SelectSeq(labels, LAMBDA label : Len(series(label)) > 1),
                        LAMBDA label : PVariance(series(label)))
             avg_label_var == IF label_vars # <<>> THEN Mean(label_vars) ELSE Zero
             variance_penalty ==
                 QMin(Hundred, QAdd(QMul(dominant_var, Q(280, 1)),
                                    QMul(avg_label_var, Q(220, 1))))
         IN  [score |-> _clamp(QSub(Hundred, variance_penalty), Zero, Hundred),
              details |-> [dominantEmotionVariance |-> QRound(dominant_var, 6),
                           averageEmotionVariance |-> QRound(avg_label_var, 6)]]

compute_speech_clarity_score(speech_quality_metrics, speech_timeline) ==
    LET avg_pause == Get(speech_quality_metrics, "averagePauseDuration", Zero)
        speaking_rate == Get(speech_quality_metrics, "speakingRateWpm", Zero)
        pause_score == _clamp(QSub(Hundred, QMul(avg_pause, Q(65, 1))), Zero, Hundred)
        speaking_rate_score ==
            _clamp(QSub(Hundred,
                        QMul(QDiv(QAbs(QSub(speaking_rate, Q(135, 1))), Q(135, 1)),
                             Hundred)),
                   Zero, Hundred)
        pitch_values ==
            MapSeq(SelectSeq(speech_timeline,
                             LAMBDA item : Get(item, "pitch", None) # None),
                   LAMBDA item : item.pitch)
        pitch_variance ==
            IF Len(pitch_values) > 1 THEN PVariance(pitch_values) ELSE Zero
        pitch_variance_score ==
            _clamp(QSub(Hundred, QDiv(pitch_variance, Q(9, 1))), Zero, Hundred)
        score == QAdd(QAdd(QMul(pause_score, Q(7, 20)),
                           QMul(speaking_rate_score, Q(9, 20))),
                      QMul(pitch_variance_score, Q(1, 5)))
    IN  [score |-> _clamp(score, Zero, Hundred),
         details |-> [pauseScore |-> QRound(pause_score, 2),
                      speakingRateScore |-> QRound(speaking_rate_score, 2),
                      pitchVarianceScore |-> QRound(pitch_variance_score, 2),
                      pitchVariance |-> QRound(pitch_variance, 4)]]

compute_content_relevance_score(segment_labels, fused_feature_vectors) ==
    IF segment_labels # <<>>
    THEN LET score == Mean(MapSeq(segment_labels,
                                  LAMBDA item : Get(item, "textRelevanceScore", Zero)))
         IN  [score |-> _clamp(score, Zero, Hundred),
              details |-> [source |-> "segmentLabels",
                           segmentCount |-> Len(segment_labels),
                           avgSegmentRelevance |-> QRound(score, 2)]]
    ELSE LET semantic_values ==
                 MapSeq(fused_feature_vectors, LAMBDA item :
                     QMul(Get(Get(item, "textScores", NoRecord),
                              "semantic_relevance", Zero), Hundred))
             score == IF semantic_values # <<>> THEN Mean(semantic_values) ELSE Zero
         IN  [score |-> _clamp(score, Zero, Hundred),
              details |-> [source |-> "fusedFeatureVectors",
                           segmentCount |-> Len(fused_feature_vectors),
                           avgSegmentRelevance |-> QRound(score, 2)]]

compute_overall_performance_score(engagement_score, emotional_regulation_score, speech_clarity_score, content_relevance_score) ==
    _clamp(QAdd(QAdd(QMul(engagement_score, Q(3, 10)),
                     QMul(emotional_regulation_score, Q(1, 5))),
                QAdd(QMul(speech_clarity_score, Q(1, 4)),
                     QMul(content_relevance_score, Q(1, 4)))),
           Zero, Hundred)

\* lines 120-129
SummaryScores(engagement_score, emotional_regulation_score, speech_clarity_score, content_relevance_score, overall_score, model_predictions) ==
    [engagementScore |-> QRound(engagement_score, 2),
     confidenceScore |-> QRound(model_predictions.confidence, 2),
     speechFluency |-> QRound(speech_clarity_score, 2),
     emotionalStability |-> QRound(emotional_regulation_score, 2),
     contentRelevanceScore |-> QRound(content_relevance_score, 2),
     overallPerformanceScore |-> QRound(overall_score, 2),
     communicationEffectiveness |->
         QRound(model_predictions.communicationEffectiveness, 2),
     interviewReadiness |-> QRound(model_predictions.interviewReadiness, 2)]

\* lines 131-155
DetailedScores(engagement, emotional, speech, content, model_predictions) ==
    [engagement |-> [score |-> QRound(engagement.score, 2),
                     components |-> engagement.details],
     emotionalRegulation |-> [score |-> QRound(emotional.score, 2),
                              components |-> emotional.details],
     speechClarity |-> [score |-> QRound(speech.score, 2),
                        components |-> speech.details],
     contentRelevance |-> [score |-> QRound(content.score, 2),
                           components |-> content.details],
     modelPredictions |-> model_predictions,
     weights |-> [engagement |-> Q(3, 10), emotionalRegulation |-> Q(1, 5),
                  speechClarity |-> Q(1, 4), contentRelevance |-> Q(1, 4)]]

\* lines 156-162
SessionPayload(summary_scores, detailed_scores) ==
    [status |-> "returned",
     summaryScores |-> summary_scores,
     detailedScores |-> detailed_scores,
     rubricEvaluation |-> map_scores_to_rubric(summary_scores, NoRecord)]

\* lines 110-162, with the four component results and the model's predictions
SessionOutcome(engagement, emotional, speech, content, model_predictions) ==
    IF model_predictions.raised THEN [status |-> "OverflowError"]
    ELSE SessionPayload(
             SummaryScores(engagement.score, emotional.score, speech.score,
                           content.score,
                           compute_overall_performance_score(
                               engagement.score, emotional.score, speech.score,
                               content.score),
                           model_predictions),
             DetailedScores(engagement, emotional, speech, content,
                            model_predictions))

\* the call's outcome: what it returns, or the exception that leaves it
compute_session_scores(engagement_metrics, emotion_trajectory, speech_quality_metrics, segment_labels, fused_feature_vectors, timeline_arrays) ==
    SessionOutcome(
        compute_engagement_score(engagement_metrics, fused_feature_vectors),
        compute_emotional_regulation_score(emotion_trajectory),
        compute_speech_clarity_score(speech_quality_metrics,
            Get(IF timeline_arrays = None THEN NoRecord ELSE timeline_arrays,
                "speechTimeline", <<>>)),
        compute_content_relevance_score(segment_labels, fused_feature_vectors),
        ReadinessPredict(fused_feature_vectors))

-----------------------------------------------------------------------------
(* scoring/advanced_scoring.py                                             *)

\* float literals with two decimals
D2(n) == Q(n, 100)

engagement_head ==
    [weights |-> <<D2(90), D2(65), D2(55), D2(25), D2(15), D2(18), D2(8), D2(12),
                   D2(20), D2(15), D2(20), D2(18)>>,
     bias |-> D2(-72)]

clarity_head ==
    [weights |-> <<D2(22), D2(18), D2(20), D2(8), D2(68), D2(75), D2(42), D2(66),
                   D2(30), D2(34), D2(20), D2(24)>>,
     bias |-> D2(-78)]

comprehension_head ==
    [weights |-> <<D2(18), D2(20), D2(12), D2(6), D2(20), D2(28), D2(16), D2(14),
                   D2(74), D2(62), D2(50), D2(70)>>,
     bias |-> D2(-80)]

overall_head ==
    [weights |-> <<D2(36), D2(30), D2(26), D2(12), D2(34), D2(36), D2(24), D2(30),
                   D2(42), D2(38), D2(31), D2(36)>>,
     bias |-> D2(-84)]

_build_vision_embedding(metrics, windows) ==
    LET eye_contact ==
            QDiv(_normalize_percent(Get(metrics, "eyeContactRatio", Zero)), Hundred)
        overall_engagement ==
            QDiv(_normalize_percent(Get(metrics, "overallEngagement", Zero)), Hundred)
        gazes == MapSeq(windows, LAMBDA item : Get(item, "gazeDirection", "unknown"))
        center_ratio ==
            IF gazes # <<>> THEN Q(CountOf(gazes, "center"), Len(gazes)) ELSE Q(1, 2)
        head_motion_mean ==
            IF windows # <<>> THEN Mean(MapSeq(windows, HeadMotion)) ELSE Q(10, 1)
        head_stability ==
            _clamp(QSub(One, QDiv(head_motion_mean, Q(30, 1))), Zero, One)
    IN  <<eye_contact, overall_engagement, center_ratio, head_stability>>

_build_audio_embedding(metrics, windows) ==
    LET speaking_rate == Get(metrics, "speakingRateWpm", Zero)
        pause_duration == Get(metrics, "averagePauseDuration", Zero)
        prosody_score == Get(metrics, "prosodyScore", Zero)
        speaking_rate_norm ==
            _clamp(QSub(One, QDiv(QAbs(QSub(speaking_rate, Q(135, 1))), Q(135, 1))),
                   Zero, One)
        pause_control == _clamp(QSub(One, QDiv(pause_duration, Q(7, 5))), Zero, One)
        prosody_norm == _clamp(prosody_score, Zero, One)
        pitch_values ==
            MapSeq(SelectSeq(windows, LAMBDA item :
                       Get(Get(item, "speechFeatures", NoRecord), "pitch", None) # None),
                   LAMBDA item : item.speechFeatures.pitch)
        pitch_var == IF Len(pitch_values) > 1 THEN PVariance(pitch_values) ELSE Zero
        pitch_stability == _clamp(QSub(One, QDiv(pitch_var, Q(220, 1))), Zero, One)
    IN  <<speaking_rate_norm, pause_control, prosody_norm, pitch_stability>>

TextScoreOf(item, key) == Get(Get(item, "textScores", NoRecord), key, Zero)

_build_text_embedding(labels, windows) ==
    LET relevance_norm ==
            IF labels # <<>>
            THEN QDiv(Mean(MapSeq(labels, LAMBDA item :
                               Get(item, "textRelevanceScore", Zero))), Hundred)
            ELSE Zero
        mean_of(key) ==
            IF windows # <<>>
            THEN Mean(MapSeq(windows, LAMBDA item : TextScoreOf(item, key)))
            ELSE Zero
        sentiment_norm ==
            _clamp(QDiv(QAdd(mean_of("sentiment_score"), One), QInt(2)), Zero, One)
    IN  <<relevance_norm, mean_of("semantic_relevance"), mean_of("answer_coherence"),
          sentiment_norm>>

AdvancedKeys ==
    {"engagement", "communicationClarity", "interviewComprehension",
     "overallPerformance"}

\* a variant whose first two blends weigh the two components the other way
FallbackScores_swapped(vision, audio, text) ==
    [engagement |->
         _clamp(QAdd(QMul(vision[1], Q(35, 1)), QMul(vision[2], Q(65, 1))),
                Zero, Hundred),
     communicationClarity |->
         _clamp(QAdd(QMul(audio[1], Q(50, 1)), QMul(audio[2], Q(50, 1))),
                Zero, Hundred),
     interviewComprehension |->
         _clamp(QAdd(QMul(text[1], Q(35, 1)), QMul(text[2], Q(65, 1))),
                Zero, Hundred),
     overallPerformance |->
         _clamp(QMul(QDiv(QAdd(QAdd(vision[1], audio[1]), text[1]), QInt(3)),
                     Hundred),
                Zero, Hundred)]

\* _transformer_predict, lines 157-168: no torch, the embeddings are blended
FallbackScores(vision, audio, text) ==
    [engagement |->
         _clamp(QAdd(QMul(vision[1], Q(65, 1)), QMul(vision[2], Q(35, 1))),
                Zero, Hundred),
     communicationClarity |->
         _clamp(QAdd(QMul(audio[1], Q(50, 1)), QMul(audio[2], Q(50, 1))),
                Zero, Hundred),
     interviewComprehension |->
         _clamp(QAdd(QMul(text[1], Q(65, 1)), QMul(text[2], Q(35, 1))),
                Zero, Hundred),
     overallPerformance |->
         _clamp(QMul(QDiv(QAdd(QAdd(vision[1], audio[1]), text[1]), QInt(3)),
                     Hundred),
                Zero, Hundred)]

\* _transformer_predict: with torch the four scores are 100 * sigmoid(logit) of
\* the encoder's output; sigmoid is what the encoder contributes here
_transformer_predict(torch, sigmoid, vision, audio, text) ==
    IF ~torch THEN FallbackScores(vision, audio, text)
    ELSE [engagement |-> QMul(sigmoid[1], Hundred),
          communicationClarity |-> QMul(sigmoid[2], Hundred),
          interviewComprehension |-> QMul(sigmoid[3], Hundred),
          overallPerformance |-> QMul(sigmoid[4], Hundred)]

\* mutant: the two components are added and the sum is not clamped
Ensemble_sum(regression_value, transformer_value) ==
    QRound(QAdd(regression_value, transformer_value), 2)

\* line 138
Ensemble(regression_value, transformer_value) ==
    QRound(_clamp(QAdd(QMul(Q(9, 20), regression_value),
                       QMul(Q(11, 20), transformer_value)), Zero, Hundred), 2)

AdvancedHeads ==
    [engagement |-> engagement_head,
     communicationClarity |-> clarity_head,
     interviewComprehension |-> comprehension_head,
     overallPerformance |-> overall_head]

\* lines 127-132
RegressionScores(features) ==
    [engagement |-> HeadPredict(AdvancedHeads.engagement, features),
     communicationClarity |-> HeadPredict(AdvancedHeads.communicationClarity, features),
     interviewComprehension |->
         HeadPredict(AdvancedHeads.interviewComprehension, features),
     overallPerformance |-> HeadPredict(AdvancedHeads.overallPerformance, features)]

\* AdvancedMultimodalScorer.predict, lines 115-149: the call's outcome
AdvancedPredict(metrics, speech, labels, windows, torch, sigmoid) ==
    LET vision_embedding == _build_vision_embedding(metrics, windows)
        audio_embedding == _build_audio_embedding(speech, windows)
        text_embedding == _build_text_embedding(labels, windows)
        combined_features == vision_embedding \o audio_embedding \o text_embedding
        regression == RegressionScores(combined_features)
        transformer_scores ==
            _transformer_predict(torch, sigmoid, vision_embedding, audio_embedding,
                                 text_embedding)
    IN  IF \E key \in AdvancedKeys : regression[key].raised
        THEN [status |-> "OverflowError"]
        ELSE [status |-> "returned",
              engagement |->
                  Ensemble(regression.engagement.value, transformer_scores.engagement),
              communicationClarity |->
                  Ensemble(regression.communicationClarity.value,
                           transformer_scores.communicationClarity),
              interviewComprehension |->
                  Ensemble(regression.interviewComprehension.value,
                           transformer_scores.interviewComprehension),
              overallPerformance |->
                  Ensemble(regression.overallPerformance.value,
                           transformer_scores.overallPerformance),
              diagnostics |->
                  [regressionHeadScores |->
                       [key \in AdvancedKeys |-> QRound(regression[key].value, 2)],
                   transformerScores |->
                       [key \in AdvancedKeys |-> QRound(transformer_scores[key], 2)],
                   modalityEmbeddings |->
                       [vision |-> MapSeq(vision_embedding, LAMBDA v : QRound(v, 4)),
                        audio |-> MapSeq(audio_embedding, LAMBDA v : QRound(v, 4)),
                        text |-> MapSeq(text_embedding, LAMBDA v : QRound(v, 4))]]]

-----------------------------------------------------------------------------
(* statistics.mean over the rows of an auditor's history                   *)

RECURSIVE WeightedSum(_, _)
WeightedSum(V, count) ==
    IF V = {} THEN Zero
    ELSE LET v == CHOOSE x \in V : TRUE
         IN  QAdd(QMul(v, QInt(count[v])), WeightedSum(V \ {v}, count))

\* the mean of column[i] over the rows i in I (I is not empty): equal values
\* are counted and added once
MeanOfRows(column, I) ==
    LET V == {column[i] : i \in I}
        count == [v \in V |-> Cardinality({i \in I : column[i] = v})]
    IN  QDiv(WeightedSum(V, count), QInt(Cardinality(I)))

QMaxIn(S) == CHOOSE x \in S : \A y \in S : QLe(y, x)
QMinIn(S) == CHOOSE x \in S : \A y \in S : QLe(x, y)

\* mutant: the newest samples are dropped
LastSamples_oldest(history, max_samples) ==
    IF Len(history) <= max_samples THEN history
    ELSE SubSeq(history, 1, max_samples)

\* history[-max_samples:]
LastSamples(history, max_samples) ==
    IF Len(history) <= max_samples THEN history
    ELSE SubSeq(history, Len(history) - max_samples + 1, Len(history))

-----------------------------------------------------------------------------
(* scoring/fairness.py: NeutralFeatureFairnessAnalyzer                     *)

NeutralMaxSamples == 1000
NeutralMinHistory == 15
NeutralSpreadLimit == Q(18, 1)

_band_eye_contact(eye_contact) ==
    LET value == IF QLe(eye_contact, One) THEN QMul(eye_contact, Hundred)
                 ELSE eye_contact
    IN  IF QLe(Q(75, 1), value) THEN "high_eye_contact"
        ELSE IF QLe(Q(45, 1), value) THEN "medium_eye_contact"
        ELSE "low_eye_contact"

_band_speaking_rate(rate) ==
    IF QLe(rate, Zero) THEN "unknown_rate"
    ELSE IF QLt(rate, Q(110, 1)) THEN "slow_rate"
    ELSE IF QLe(rate, Q(160, 1)) THEN "optimal_rate"
    ELSE "fast_rate"

\* a variant whose upper limits are inclusive
_band_pause_inclusive(pause) ==
    IF QLe(pause, Zero) THEN "minimal_pause"
    ELSE IF QLe(pause, Q(1, 2)) THEN "short_pause"
    ELSE IF QLe(pause, One) THEN "moderate_pause"
    ELSE "long_pause"

_band_pause(pause) ==
    IF QLe(pause, Zero) THEN "minimal_pause"
    ELSE IF QLt(pause, Q(1, 2)) THEN "short_pause"
    ELSE IF QLt(pause, One) THEN "moderate_pause"
    ELSE "long_pause"

_band_relevance(relevance) ==
    IF QLe(Q(80, 1), relevance) THEN "high_relevance"
    ELSE IF QLe(Q(60, 1), relevance) THEN "medium_relevance"
    ELSE "low_relevance"

_average_relevance(labels) ==
    IF labels = <<>> THEN Zero
    ELSE Mean(MapSeq(labels, LAMBDA item : Get(item, "textRelevanceScore", Zero)))

\* feature_groups and scores keep this order (dict insertion order)
GroupKeys == <<"eyeContactBand", "speakingRateBand", "pauseBand", "contentRelevanceBand">>
ScoreNames ==
    <<"engagement", "communicationClarity", "interviewComprehension",
      "overallPerformance">>

\* lines 23-39
FairnessSample(session_id, core_scores, metrics, speech, labels) ==
    [sessionId |-> session_id,
     groups |->
         [eyeContactBand |-> _band_eye_contact(Get(metrics, "eyeContactRatio", Zero)),
          speakingRateBand |->
              _band_speaking_rate(Get(speech, "speakingRateWpm", Zero)),
          pauseBand |-> _band_pause(Get(speech, "averagePauseDuration", Zero)),
          contentRelevanceBand |-> _band_relevance(_average_relevance(labels))],
     scores |->
         [engagement |-> _clamp(Get(core_scores, "engagement", Zero), Zero, Hundred),
          communicationClarity |->
              _clamp(Get(core_scores, "communicationClarity", Zero), Zero, Hundred),
          interviewComprehension |->
              _clamp(Get(core_scores, "interviewComprehension", Zero), Zero, Hundred),
          overallPerformance |->
              _clamp(Get(core_scores, "overallPerformance", Zero), Zero, Hundred)]]

\* the rows of the history by what the loops read of them: how many rows hold
\* each <<groups, scores>>
Tally(history) ==
    LET row(i) == <<history[i].groups, history[i].scores>>
    IN  [r \in {row(i) : i \in 1..Len(history)} |->
            Cardinality({i \in 1..Len(history) : row(i) = r})]

RECURSIVE TallySum(_, _, _)
TallySum(rows, tally, score_name) ==
    IF rows = {} THEN Zero
    ELSE LET r == CHOOSE x \in rows : TRUE
         IN  QAdd(QMul(r[2][score_name], QInt(tally[r])),
                  TallySum(rows \ {r}, tally, score_name))

RECURSIVE TallyCount(_, _)
TallyCount(rows, tally) ==
    IF rows = {} THEN 0
    ELSE LET r == CHOOSE x \in rows : TRUE
         IN  tally[r] + TallyCount(rows \ {r}, tally)

\* lines 47-59: means, bucket -> statistics.mean of the bucket's values
BucketMeans(tally, group_key, score_name) ==
    [bucket \in {r[1][group_key] : r \in DOMAIN tally} |->
        LET rows == {r \in DOMAIN tally : r[1][group_key] = bucket}
        IN  QDiv(TallySum(rows, tally, score_name), QInt(TallyCount(rows, tally)))]

MeansOf(means) == {means[bucket] : bucket \in DOMAIN means}

\* lines 60-63
Spread(means) ==
    IF DOMAIN means # {} THEN QSub(QMaxIn(MeansOf(means)), QMinIn(MeansOf(means)))
    ELSE Zero

\* mutant: a spread of exactly 18 warns as well
NeutralWarns_at_limit(means, history) ==
    /\ Cardinality(DOMAIN means) >= 2
    /\ QLe(NeutralSpreadLimit, Spread(means))
    /\ Len(history) >= NeutralMinHistory

\* line 69
NeutralWarns(means, history) ==
    /\ Cardinality(DOMAIN means) >= 2
    /\ QLt(NeutralSpreadLimit, Spread(means))
    /\ Len(history) >= NeutralMinHistory

\* the (band, score) pairs in the order the two loops visit them
BandScorePairs ==
    [n \in 1..(Len(GroupKeys) * Len(ScoreNames)) |->
        <<GroupKeys[((n - 1) \div Len(ScoreNames)) + 1],
          ScoreNames[((n - 1) % Len(ScoreNames)) + 1]>>]

\* lines 44-84: the report over the history that already holds the sample; a
\* warning text is kept as <<score, band, "{spread:.2f}">>
FairnessReport(history) ==
    LET tally == Tally(history)
        means(pair) == BucketMeans(tally, pair[1], pair[2])
        group_report(group_key) ==
            [score_name \in {ScoreNames[j] : j \in 1..Len(ScoreNames)} |->
                LET m == BucketMeans(tally, group_key, score_name)
                IN  [bucketMeans |-> [bucket \in DOMAIN m |-> QRound(m[bucket], 2)],
                     spread |-> QRound(Spread(m), 2)]]
    IN  [sampleCount |-> Len(history),
         neutralMetricsUsed |->
             <<"contentRelevanceBand", "eyeContactBand", "pauseBand",
               "speakingRateBand">>,
         groupVariance |->
             [group_key \in {GroupKeys[j] : j \in 1..Len(GroupKeys)} |->
                 group_report(group_key)],
         warnings |->
             MapSeq(SelectSeq(BandScorePairs,
                              LAMBDA pair : NeutralWarns(means(pair), history)),
                    LAMBDA pair : <<pair[2], pair[1], QRound(Spread(means(pair)), 2)>>)]

-----------------------------------------------------------------------------
(* scoring/score_calculator.py: BiasAuditor                                *)

BiasMaxSamples == 500
BiasMinHistory == 20
BiasSpreadLimit == Q(15, 1)

SENSITIVE_KEYS ==
    {"gender", "race", "ethnicity", "age", "accent", "nationality", "religion",
     "disability"}
IRRELEVANT_KEYS ==
    {"camera_brand", "device_model", "network_quality", "lighting_condition"}

\* sorted(...) of attribute names
SortedSensitive ==
    <<"accent", "age", "disability", "ethnicity", "gender", "nationality", "race",
      "religion">>
SortedIrrelevant ==
    <<"camera_brand", "device_model", "lighting_condition", "network_quality">>

\* a context value is None or <<type, text>>; str(value) is its text, so the
\* int 30 and the str "30" have the same str
StrOf(value) == value[2]

\* {k: v for k, v in session_context.items() if k in keys and v is not None}
Flagged(session_context, keys) ==
    SelectSeq(session_context, LAMBDA pr : pr[1] \in keys /\ pr[2] # None)

\* lines 42-48: the appended sample
BiasSample(flagged_sensitive, summary_scores) ==
    [overall |-> Get(summary_scores, "overallPerformanceScore", Zero),
     sensitive |-> flagged_sensitive]

\* lines 51-55: group_scores as str(value) -> rows
GroupRows(history, key) ==
    LET rows == {i \in 1..Len(history) : DHas(history[i].sensitive, key)}
        names == {StrOf(DVal(history[i].sensitive, key)) : i \in rows}
    IN  [name \in names |->
            {i \in rows : StrOf(DVal(history[i].sensitive, key)) = name}]

GroupMeans(history, key) ==
    LET column == [i \in 1..Len(history) |-> history[i].overall]
        groups == GroupRows(history, key)
    IN  [name \in DOMAIN groups |-> MeanOfRows(column, groups[name])]

\* mutant: the disparity check does not wait for 20 samples
BiasWarns_no_minimum(history, key) ==
    /\ Cardinality(DOMAIN GroupRows(history, key)) >= 2
    /\ QLt(BiasSpreadLimit, Spread(GroupMeans(history, key)))

\* lines 57-62
BiasWarns(history, key) ==
    /\ Cardinality(DOMAIN GroupRows(history, key)) >= 2
    /\ QLt(BiasSpreadLimit, Spread(GroupMeans(history, key)))
    /\ Len(history) >= BiasMinHistory

\* mutant: a sample is appended whatever the context holds
BiasHistoryAfter_always(history, session_context, summary_scores) ==
    LastSamples(Append(history,
                       BiasSample(Flagged(session_context, SENSITIVE_KEYS),
                                  summary_scores)),
                BiasMaxSamples)

\* BiasAuditor.audit, lines 30-77: the history after the call
BiasHistoryAfter(history, session_context, summary_scores) ==
    LET flagged_sensitive == Flagged(session_context, SENSITIVE_KEYS)
    IN  IF flagged_sensitive # <<>>
        THEN LastSamples(Append(history,
                                BiasSample(flagged_sensitive, summary_scores)),
                         BiasMaxSamples)
        ELSE history

\* BiasAuditor.audit, lines 30-77: the returned report; a disparity warning is
\* kept as <<"disparity", key, "{spread:.2f}">>
BiasReport(history, session_context, summary_scores) ==
    LET flagged_sensitive == Flagged(session_context, SENSITIVE_KEYS)
        flagged_irrelevant == Flagged(session_context, IRRELEVANT_KEYS)
        after == BiasHistoryAfter(history, session_context, summary_scores)
        irrelevant_warning ==
            IF flagged_irrelevant # <<>> THEN << <<"irrelevant">> >> ELSE <<>>
        disparity_warnings ==
            IF flagged_sensitive # <<>>
            THEN MapSeq(SelectSeq(DKeys(flagged_sensitive),
                                  LAMBDA key : BiasWarns(after, key)),
                        LAMBDA key :
                            <<"disparity", key,
                              QRound(Spread(GroupMeans(after, key)), 2)>>)
            ELSE <<>>
    IN  [checkedSensitiveAttributes |->
             SelectSeq(SortedSensitive, LAMBDA k : DHas(flagged_sensitive, k)),
         checkedIrrelevantAttributes |->
             SelectSeq(SortedIrrelevant, LAMBDA k : DHas(flagged_irrelevant, k)),
         warnings |-> irrelevant_warning \o disparity_warnings,
         historySampleCount |-> Len(after)]

-----------------------------------------------------------------------------
(* State                                                                   *)

VARIABLES
    \* fuse_multimodal_features: arguments
    video_features, audio_segment_features, text_segment_features,
    window_size_seconds,
    \* fuse_multimodal_features: locals
    window_size, max_time, cursor, fused_segments,
    slices,        \* per window, the video/audio/text slices it selected
    fuse_pc,       \* "start", "loop", "done"
    fused,         \* the returned dict once fuse_pc = "done"
    \* compute_session_scores: arguments
    engagement_metrics, emotion_trajectory, speech_quality_metrics,
    segment_labels, fused_feature_vectors, timeline_arrays,
    score_pc,      \* "start", "done"
    session_scores, \* the call's outcome once score_pc = "done"
    \* compute_advanced_multimodal_scores (it takes the scorer's arguments)
    torch_available, \* whether import torch succeeded at process start
    adv_pc,         \* "start", "done"
    advanced_scores, \* the call's outcome once adv_pc = "done"
    \* FAIRNESS_ANALYZER
    neutral_history, \* _history
    fairness_report, \* what the last analyze call returned
    neutral_log,     \* per analyze call so far, which of NeutralInputs it got
    caller_core_scores, \* the caller's core_scores dict once analyze returned
    \* BIAS_AUDITOR
    bias_history,    \* _history
    bias_audit,      \* what the last audit call returned
    bias_log,        \* per audit call so far, which of BiasInputs it got
    caller_summary_scores, \* the caller's summary_scores dict once audit returned
    \* score_to_level (it takes a score and a dimension's levels)
    rubric_score,    \* score
    rubric_dimension, \* the dimension whose levels are passed
    rubric_pc,       \* "start", "done"
    rubric_level,    \* the level returned once rubric_pc = "done"
    \* calls of one auditor running on several threads
    race_cap,        \* the auditor's _max_samples
    race_prefill,    \* how many samples _history held before these calls
    race_history,    \* _history, a sample written as the number of its call
    race_pc,         \* per call: "start", "appended", "sliced", "stored", "done"
    race_local,      \* per call: the value of self._history[-max:] it evaluated
    race_count,      \* per call: the sample count it reported
    \* a caller that runs fuse_multimodal_features twice on the same inputs
    fuse_round,      \* 1 during the first call, 2 from the second call on
    fuse_first,      \* what the first call returned, "none" before it has
    \* services/session_store.py: one session row and the calls made on it
    store_data,      \* the row's data_json
    store_clock,     \* datetime.now, counted in calls
    store_call,      \* the last call made: its name and arguments
    store_returned,  \* what the last call returned
    \* scoring/rubric.py: one call of map_scores_to_rubric
    map_summary,     \* summary_scores
    map_advanced,    \* advanced_scores
    map_pc,          \* "idle", "call", "done"
    map_evaluation,  \* the dict returned once map_pc = "done"
    \* scoring/fairness.py: the feature groups of one sample
    band_metrics,    \* engagement_metrics
    band_speech,     \* speech_quality_metrics
    band_labels,     \* segment_labels
    band_pc,         \* "idle", "call", "done"
    band_groups,     \* the sample's feature_groups once band_pc = "done"
    \* analysis jobs: enqueue_video_analysis calls and the worker's tasks
    job_status,      \* per job: the row's status, "absent" before the row exists
    job_task_id,     \* per job: the row's task_id, who wrote it last
    enqueue_pc,      \* per job: where its enqueue_video_analysis call is
    task_pc,         \* per job: where its run_video_analysis_task is
    enqueue_returned, \* per job: the status in the dict the call returned
    \* services/analysis_pipeline.py: runs of execute_video_analysis in one process
    pipe_contexts,   \* per run: the session dict handed to the bias auditor
    pipe_summary,    \* per run: summaryScores of the result
    pipe_advanced    \* per run: the advanced scores handed on after the fairness report

fuseVars == <<video_features, audio_segment_features, text_segment_features,
              window_size_seconds, window_size, max_time, cursor, fused_segments,
              slices, fuse_pc, fused>>

scoreVars == <<engagement_metrics, emotion_trajectory, speech_quality_metrics,
               segment_labels, fused_feature_vectors, timeline_arrays, score_pc,
               session_scores>>

advVars == <<torch_available, adv_pc, advanced_scores>>

neutralVars == <<neutral_history, fairness_report, neutral_log, caller_core_scores>>

biasVars == <<bias_history, bias_audit, bias_log, caller_summary_scores>>

rubricVars == <<rubric_score, rubric_dimension, rubric_pc, rubric_level>>

raceVars == <<race_cap, race_prefill, race_history, race_pc, race_local, race_count>>

twiceVars == <<fuse_round, fuse_first>>

storeVars == <<store_data, store_clock, store_call, store_returned>>

mapVars == <<map_summary, map_advanced, map_pc, map_evaluation>>

bandVars == <<band_metrics, band_speech, band_labels, band_pc, band_groups>>

jobVars == <<job_status, job_task_id, enqueue_pc, task_pc, enqueue_returned>>

pipeVars == <<pipe_contexts, pipe_summary, pipe_advanced>>

vars == <<fuseVars, scoreVars, advVars, neutralVars, biasVars, rubricVars, raceVars, twiceVars, storeVars, mapVars, bandVars, jobVars, pipeVars>>

-----------------------------------------------------------------------------
(* Inputs of the aligner                                                   *)

MaxFrames == 3
MaxAudio == 3
MaxText == 2

\* video frames in order of timestamp; some lack optional keys
FrameCatalogue ==
    << [timestamp |-> Q(3, 10),
        facial_emotion_scores |-> << <<"happy", Q(3, 5)>>, <<"neutral", Q(2, 5)>> >>,
        head_pose |-> [yaw |-> Q(2, 1), pitch |-> Q(-1, 1), roll |-> Zero],
        gaze_direction |-> "center", eye_contact |-> One],
       [timestamp |-> Q(2501, 5000),
        facial_emotion_scores |-> << <<"neutral", Q(1, 2)>>, <<"sad", Q(1, 2)>> >>,
        head_pose |-> [yaw |-> Q(-4, 1), pitch |-> Q(2, 1), roll |-> One],
        gaze_direction |-> "left", eye_contact |-> Zero],
       [timestamp |-> One,
        facial_emotion_scores |-> << <<"happy", One>> >>,
        gaze_direction |-> "center", eye_contact |-> One],
       [timestamp |-> Q(2, 1),
        facial_emotion_scores |-> << <<"angry", Q(7, 10)>>, <<"sad", Q(3, 10)>> >>,
        head_pose |-> [yaw |-> Q(10, 1)],
        eye_contact |-> Zero] >>

\* audio segments: one spanning several windows, one that only touches window
\* boundaries, one of zero length
AudioCatalogue ==
    << [start |-> Q(1, 5), end |-> Q(12, 5), pitch |-> Q(200, 1),
        pause_duration |-> Q(1, 5), speaking_rate |-> Q(130, 1),
        prosody |-> [log_mel_std |-> Q(1, 2)]],
       [start |-> One, end |-> Q(2, 1), pitch |-> Q(180, 1),
        pause_duration |-> Q(3, 5), speaking_rate |-> Q(150, 1)],
       [start |-> Q(3, 2), end |-> Q(3, 2), pitch |-> Q(100, 1),
        pause_duration |-> Q(2, 1), speaking_rate |-> Q(90, 1),
        prosody |-> [log_mel_std |-> Q(1, 4)]] >>

TextCatalogue ==
    << [start |-> Zero, end |-> One, semantic_relevance |-> Q(4, 5),
        sentiment_score |-> Q(1, 5), answer_coherence |-> Q(3, 5)],
       [start |-> One, end |-> Q(5, 2), semantic_relevance |-> Q(1, 2),
        sentiment_score |-> Q(-1, 2), answer_coherence |-> Q(2, 3)],
       [start |-> Q(3, 2), end |-> Q(2, 1), semantic_relevance |-> Q(-1, 2),
        sentiment_score |-> Zero, answer_coherence |-> Q(1, 4)] >>

\* requested window sizes: below the floor, the floor, a size that is no whole
\* number of milliseconds, 1 s and the default 2 s
WindowSizes == {Q(-1, 1), Zero, Q(1, 2), Q(1251, 2500), One, Q(2, 1)}

RECURSIVE Pick(_, _, _)
Pick(cat, S, i) ==
    IF i > Len(cat) THEN <<>>
    ELSE (IF i \in S THEN <<cat[i]>> ELSE <<>>) \o Pick(cat, S, i + 1)

\* the streams of at most n items that keep the catalogue's order
Streams(cat, n) ==
    {Pick(cat, S, 1) : S \in {T \in SUBSET (1..Len(cat)) : Cardinality(T) <= n}}

-----------------------------------------------------------------------------
(* fuse_multimodal_features                                                *)

FuseIdle ==
    /\ window_size = Zero /\ max_time = Zero /\ cursor = Zero
    /\ fused_segments = <<>> /\ slices = <<>>
    /\ fuse_pc = "start" /\ fused = "none"

\* no call of compute_session_scores is in progress
ScoreIdle ==
    /\ engagement_metrics = NoRecord /\ emotion_trajectory = <<>>
    /\ speech_quality_metrics = NoRecord /\ segment_labels = <<>>
    /\ fused_feature_vectors = <<>> /\ timeline_arrays = None
    /\ score_pc = "start" /\ session_scores = NoRecord

\* no call of compute_advanced_multimodal_scores is in progress
AdvIdle == torch_available = FALSE /\ adv_pc = "start" /\ advanced_scores = NoRecord

\* no call of score_to_level is in progress
RubricIdle ==
    /\ rubric_score = Zero /\ rubric_dimension = "communication"
    /\ rubric_pc = "start" /\ rubric_level = NoRecord

\* no session has been created
StoreIdle ==
    /\ store_data = NoRecord /\ store_clock = 0
    /\ store_call = NoRecord /\ store_returned = NoRecord

\* execute_video_analysis has not run
PipeIdle == pipe_contexts = <<>> /\ pipe_summary = <<>> /\ pipe_advanced = <<>>

\* no analysis job has been asked for
JobIdle ==
    /\ job_status = <<>> /\ job_task_id = <<>> /\ enqueue_pc = <<>>
    /\ task_pc = <<>> /\ enqueue_returned = <<>>

\* no sample is being banded
BandIdle ==
    /\ band_metrics = NoRecord /\ band_speech = NoRecord /\ band_labels = <<>>
    /\ band_pc = "idle" /\ band_groups = NoRecord

\* map_scores_to_rubric has not been called
MapIdle ==
    /\ map_summary = NoRecord /\ map_advanced = NoRecord
    /\ map_pc = "idle" /\ map_evaluation = NoRecord

\* no result of an earlier fuse_multimodal_features call is kept
TwiceIdle == fuse_round = 1 /\ fuse_first = "none"

\* no auditor call is running on a thread
RaceIdle ==
    /\ race_cap = 0 /\ race_prefill = 0 /\ race_history = <<>>
    /\ race_pc = <<>> /\ race_local = <<>> /\ race_count = <<>>

\* both auditors as constructed at import
AuditorsNew ==
    /\ neutral_history = <<>> /\ fairness_report = NoRecord /\ neutral_log = <<>>
    /\ bias_history = <<>> /\ bias_audit = NoRecord /\ bias_log = <<>>
    /\ caller_core_scores = NoRecord /\ caller_summary_scores = NoRecord

InitFuse ==
    /\ video_features \in Streams(FrameCatalogue, MaxFrames)
    /\ audio_segment_features \in Streams(AudioCatalogue, MaxAudio)
    /\ text_segment_features \in Streams(TextCatalogue, MaxText)
    /\ window_size_seconds \in WindowSizes
    /\ FuseIdle
    /\ ScoreIdle
    /\ AdvIdle
    /\ AuditorsNew
    /\ RubricIdle
    /\ RaceIdle
    /\ TwiceIdle
    /\ StoreIdle
    /\ MapIdle
    /\ BandIdle
    /\ JobIdle
    /\ PipeIdle

FloorSeconds == Q(1, 2)

\* mutant: the loop stops when the cursor reaches max_time
LoopContinues_strict(c, t) == QLt(c, t)

\* line 24: while cursor <= max_time
LoopContinues(c, t) == QLe(c, t)

\* a variant in which fused_segments outlives the call
Fuse_Begin_keeping_segments ==
    /\ fuse_pc = "start"
    /\ window_size' = QMax(FloorSeconds, window_size_seconds)
    /\ max_time' = _max_time(video_features, audio_segment_features,
                             text_segment_features)
    /\ fused_segments' = fused_segments
    /\ slices' = <<>>
    /\ cursor' = Zero
    /\ fuse_pc' = "loop"
    /\ UNCHANGED <<video_features, audio_segment_features, text_segment_features,
                   window_size_seconds, fused>>

\* lines 19-23
Fuse_Begin ==
    /\ fuse_pc = "start"
    /\ window_size' = QMax(FloorSeconds, window_size_seconds)
    /\ max_time' = _max_time(video_features, audio_segment_features,
                             text_segment_features)
    /\ fused_segments' = <<>>
    /\ slices' = <<>>
    /\ cursor' = Zero
    /\ fuse_pc' = "loop"
    /\ UNCHANGED <<video_features, audio_segment_features, text_segment_features,
                   window_size_seconds, fused>>

\* lines 24-70: one iteration of the while loop
Fuse_Window ==
    /\ fuse_pc = "loop"
    /\ LoopContinues(cursor, max_time)
    /\ LET end_time == QAdd(cursor, window_size)
       IN  /\ fused_segments' =
                 Append(fused_segments,
                        FusedWindow(video_features, audio_segment_features,
                                    text_segment_features, cursor, window_size))
           /\ slices' =
                 Append(slices,
                        [video |-> VideoSlice(video_features, cursor, end_time),
                         audio |-> SegmentSlice(audio_segment_features, cursor, end_time),
                         text |-> SegmentSlice(text_segment_features, cursor, end_time)])
           /\ cursor' = end_time
    /\ UNCHANGED <<video_features, audio_segment_features, text_segment_features,
                   window_size_seconds, window_size, max_time, fuse_pc, fused>>

\* lines 72-99: the loop has ended
Fuse_Finish ==
    /\ fuse_pc = "loop"
    /\ ~LoopContinues(cursor, max_time)
    /\ fused' = FusedOutput(video_features, audio_segment_features, fused_segments)
    /\ fuse_pc' = "done"
    /\ UNCHANGED <<video_features, audio_segment_features, text_segment_features,
                   window_size_seconds, window_size, max_time, cursor, fused_segments,
                   slices>>

NextFuse ==
    /\ Fuse_Begin \/ Fuse_Window \/ Fuse_Finish
    /\ UNCHANGED <<scoreVars, advVars, neutralVars, biasVars, rubricVars, raceVars, twiceVars, storeVars, mapVars, bandVars, jobVars, pipeVars>>

SpecFuse == InitFuse /\ [][NextFuse]_vars

-----------------------------------------------------------------------------
(* Claims about the window aligner                                         *)

QFloor(x) == x[1] \div x[2]

\* the clamped window size and the largest stream time, as the claims state them
ClaimW == IF QLt(window_size_seconds, Q(1, 2)) THEN Q(1, 2) ELSE window_size_seconds

StreamTimes ==
    {video_features[i].timestamp : i \in 1..Len(video_features)}
    \cup {audio_segment_features[i].end : i \in 1..Len(audio_segment_features)}
    \cup {text_segment_features[i].end : i \in 1..Len(text_segment_features)}

ClaimT ==
    IF StreamTimes = {} THEN Zero
    ELSE CHOOSE t \in StreamTimes : \A u \in StreamTimes : QLe(u, t)

WindowCount == QFloor(QDiv(ClaimT, ClaimW)) + 1

\* the unrounded bounds of the k-th window (k from 1)
WinStart(k) == QMul(QInt(k - 1), ClaimW)
WinEnd(k) == QMul(QInt(k), ClaimW)

Millisecond == Q(1, 1000)

\* C1 (as amended): the aligner terminates and produces the windows
\* [k*w, (k+1)*w) for k = 0 .. floor(T/w), in that order, with startTime and
\* endTime reported rounded to 3 decimals: the first window starts at 0, every
\* window starts where the previous one ends, endTime > startTime, the reported
\* length differs from w by less than 1 ms, and the unrounded end of the last
\* window lies strictly after T.
C1_WindowsRounded ==
    /\ fuse_pc # "start" =>
         /\ Len(fused_segments) <= WindowCount
         /\ \A k \in 1..Len(fused_segments) :
              LET win == fused_segments[k]
              IN  /\ win.startTime = QRound(WinStart(k), 3)
                  /\ win.endTime = QRound(WinEnd(k), 3)
                  /\ QLt(win.startTime, win.endTime)
                  /\ k = 1 => win.startTime = Zero
                  /\ k > 1 => win.startTime = fused_segments[k - 1].endTime
                  /\ QLt(QAbs(QSub(QSub(win.endTime, win.startTime), ClaimW)),
                         Millisecond)
    /\ fuse_pc = "done" =>
         /\ Len(fused_segments) = WindowCount
         /\ fused.fused_feature_vectors = fused_segments
         /\ QLt(ClaimT, WinEnd(Len(fused_segments)))
    \* termination: each iteration appends one window, and the loop goes on
    \* exactly while fewer than floor(T/w) + 1 windows exist
    /\ fuse_pc = "loop" =>
         /\ cursor = WinStart(Len(fused_segments) + 1)
         /\ QLe(cursor, max_time) <=> Len(fused_segments) < WindowCount

\* C1 witness: a finished call with several windows whose last window starts
\* exactly at T (T is a multiple of w), for a window size that is no whole
\* number of milliseconds or was clamped
C1_Witness ==
    /\ fuse_pc = "done"
    /\ Len(fused_segments) >= 2
    /\ WinStart(Len(fused_segments)) = ClaimT
    /\ QLt(window_size_seconds, Q(1, 2))

\* C1 (original): every window is exactly [k*w, (k+1)*w), of length exactly w,
\* and the last one ends strictly after T
C1_Original ==
    fuse_pc = "done" =>
        /\ Len(fused_segments) = WindowCount
        /\ \A k \in 1..Len(fused_segments) :
             LET win == fused_segments[k]
             IN  /\ win.startTime = WinStart(k)
                 /\ win.endTime = WinEnd(k)
                 /\ QSub(win.endTime, win.startTime) = ClaimW
        /\ QLt(ClaimT, fused_segments[Len(fused_segments)].endTime)

\* the windows whose video slice holds the i-th frame
WindowsOfFrame(i) ==
    {k \in 1..Len(slices) :
        \E j \in 1..Len(slices[k].video) : slices[k].video[j] = video_features[i]}

\* C6 (as amended): every video frame with timestamp t in [0, T] is selected
\* into exactly one window, the one whose unrounded interval [k*w, (k+1)*w)
\* holds t; a frame on a window boundary belongs to the later window only and a
\* frame at t = T is never dropped.
C6_FrameInOneWindow ==
    /\ \A i \in 1..Len(video_features) :
         \A k \in WindowsOfFrame(i) :
             /\ QLe(WinStart(k), video_features[i].timestamp)
             /\ QLt(video_features[i].timestamp, WinEnd(k))
    /\ fuse_pc = "done" =>
         \A i \in 1..Len(video_features) : Cardinality(WindowsOfFrame(i)) = 1

\* C6 witness: a finished call with a frame exactly at T, T a multiple of w,
\* that sits alone with its window boundary
C6_Witness ==
    /\ fuse_pc = "done"
    /\ Len(fused_segments) >= 2
    /\ \E i \in 1..Len(video_features) :
         /\ video_features[i].timestamp = ClaimT
         /\ WinStart(Len(fused_segments)) = ClaimT
         /\ WindowsOfFrame(i) = {Len(fused_segments)}

\* C6 (original): the window a frame is selected into is the one whose
\* reported startTime <= t < endTime
C6_Original ==
    fuse_pc = "done" =>
        \A i \in 1..Len(video_features) :
            /\ Cardinality(WindowsOfFrame(i)) = 1
            /\ \A k \in WindowsOfFrame(i) :
                 /\ QLe(fused_segments[k].startTime, video_features[i].timestamp)
                 /\ QLt(video_features[i].timestamp, fused_segments[k].endTime)

InSlice(slice, item) == \E j \in 1..Len(slice) : slice[j] = item

\* a segment and the window [ws, we) share an interval of positive length
SharesTime(seg, k) ==
    /\ QLt(seg.start, WinEnd(k))
    /\ QLt(WinStart(k), seg.end)
    /\ QLt(seg.start, seg.end)

\* C7: an audio or text segment (start, end) is selected into the window
\* [ws, we) (the loop's unrounded bounds) if and only if max(ws, start) <
\* min(we, end): a segment spanning several windows is counted in each, a
\* segment that only touches a boundary is not counted there, and a
\* zero-length segment is counted in no window.
C7_StrictOverlap ==
    \A k \in 1..Len(slices) :
        /\ \A i \in 1..Len(audio_segment_features) :
             InSlice(slices[k].audio, audio_segment_features[i])
                 <=> SharesTime(audio_segment_features[i], k)
        /\ \A i \in 1..Len(text_segment_features) :
             InSlice(slices[k].text, text_segment_features[i])
                 <=> SharesTime(text_segment_features[i], k)
        /\ Len(slices[k].audio) <= Len(audio_segment_features)
        /\ Len(slices[k].text) <= Len(text_segment_features)

\* C7 witness: a finished call where one segment is counted in two windows,
\* one segment ends exactly where a window starts, and a zero-length segment
\* lies inside a window
C7_Witness ==
    /\ fuse_pc = "done"
    /\ \E i \in 1..Len(audio_segment_features) :
         \E k1, k2 \in 1..Len(slices) :
             /\ k1 # k2
             /\ InSlice(slices[k1].audio, audio_segment_features[i])
             /\ InSlice(slices[k2].audio, audio_segment_features[i])
    /\ \E i \in 1..Len(audio_segment_features) :
         \E k \in 1..Len(slices) :
             /\ audio_segment_features[i].end = WinStart(k)
             /\ QLt(audio_segment_features[i].start, audio_segment_features[i].end)
    /\ \E i \in 1..Len(audio_segment_features) :
         \E k \in 1..Len(slices) :
             /\ audio_segment_features[i].start = audio_segment_features[i].end
             /\ QLt(WinStart(k), audio_segment_features[i].start)
             /\ QLt(audio_segment_features[i].start, WinEnd(k))

ZeroVector10 == [i \in 1..10 |-> Zero]

\* C8: three empty streams and windowSizeSeconds = 2.0 give exactly one window
\* [0.0, 2.0) with all defaults (emotion {neutral: 1.0}, head pose zero, gaze
\* "unknown", speech and text features zero); any window that selects no item
\* of a stream carries that stream's default aggregate.
C8_Defaults ==
    /\ ( /\ fuse_pc = "done"
         /\ video_features = <<>>
         /\ audio_segment_features = <<>>
         /\ text_segment_features = <<>>
         /\ window_size_seconds = Q(2, 1) ) =>
           fused.fused_feature_vectors =
               << [startTime |-> Zero, endTime |-> Q(2, 1),
                   facialEmotionScores |-> << <<"neutral", One>> >>,
                   headPose |-> [yaw |-> Zero, pitch |-> Zero, roll |-> Zero],
                   gazeDirection |-> "unknown",
                   speechFeatures |-> [pitch |-> Zero, pause_duration |-> Zero,
                                       speaking_rate |-> Zero, prosody_score |-> Zero],
                   textScores |-> [semantic_relevance |-> Zero,
                                   sentiment_score |-> Zero,
                                   answer_coherence |-> Zero],
                   fusedVector |-> [ZeroVector10 EXCEPT ![2] = One]] >>
    /\ \A k \in 1..Len(fused_segments) :
         LET win == fused_segments[k]
         IN  /\ slices[k].video = <<>> =>
                   /\ win.facialEmotionScores = << <<"neutral", One>> >>
                   /\ win.headPose = [yaw |-> Zero, pitch |-> Zero, roll |-> Zero]
                   /\ win.gazeDirection = "unknown"
             /\ slices[k].audio = <<>> =>
                   win.speechFeatures = [pitch |-> Zero, pause_duration |-> Zero,
                                         speaking_rate |-> Zero, prosody_score |-> Zero]
             /\ slices[k].text = <<>> =>
                   win.textScores = [semantic_relevance |-> Zero,
                                     sentiment_score |-> Zero,
                                     answer_coherence |-> Zero]

\* C8 witness: the call on three empty streams with window size 2.0 has
\* returned
C8_Witness ==
    /\ fuse_pc = "done"
    /\ video_features = <<>>
    /\ audio_segment_features = <<>>
    /\ text_segment_features = <<>>
    /\ window_size_seconds = Q(2, 1)
    /\ Len(fused.fused_feature_vectors) = 1

\* C9: without learned fusion every window's fusedVector has exactly 10
\* entries, in the order happy, neutral, sad, speakingRate, pitch,
\* pauseDuration, semanticRelevance, sentimentScore, answerCoherence,
\* centerGaze, each the window's aggregate (rounded to 6 decimals, 0 when the
\* aggregate lacks the value); the 10th is 1 iff the dominant gaze is "center".
C9_FusedVector ==
    \A k \in 1..Len(fused_segments) :
        LET win == fused_segments[k]
            v == win.fusedVector
            emo(label) ==
                IF \E i \in 1..Len(win.facialEmotionScores) :
                       win.facialEmotionScores[i][1] = label
                THEN (CHOOSE pr \in {win.facialEmotionScores[i] :
                                       i \in 1..Len(win.facialEmotionScores)} :
                          pr[1] = label)[2]
                ELSE Zero
        IN  /\ Len(v) = 10
            /\ v[1] = QRound(emo("happy"), 6)
            /\ v[2] = QRound(emo("neutral"), 6)
            /\ v[3] = QRound(emo("sad"), 6)
            /\ v[4] = QRound(win.speechFeatures.speaking_rate, 6)
            /\ v[5] = QRound(win.speechFeatures.pitch, 6)
            /\ v[6] = QRound(win.speechFeatures.pause_duration, 6)
            /\ v[7] = QRound(win.textScores.semantic_relevance, 6)
            /\ v[8] = QRound(win.textScores.sentiment_score, 6)
            /\ v[9] = QRound(win.textScores.answer_coherence, 6)
            /\ v[10] \in {Zero, One}
            /\ v[10] = One <=> win.gazeDirection = "center"

\* C9 witness: a window whose emotion aggregate lacks "happy", whose dominant
\* gaze is not the center, that has speech and whose text aggregate needs
\* rounding
C9_Witness ==
    \E k \in 1..Len(fused_segments) :
        LET win == fused_segments[k]
        IN  /\ \A i \in 1..Len(win.facialEmotionScores) :
                  win.facialEmotionScores[i][1] # "happy"
            /\ win.gazeDirection = "left"
            /\ win.speechFeatures.speaking_rate # win.speechFeatures.pitch
            /\ win.textScores.answer_coherence
                   # QRound(win.textScores.answer_coherence, 6)

-----------------------------------------------------------------------------
(* compute_session_scores as an operation                                  *)

MaxWindows == 2
MaxPoints == 2
MaxLabels == 2

\* fused windows as fuse_multimodal_features builds them: an attentive one, one
\* after a 2900 s silence between two transcript segments, one that looks
\* away, and one from a caller that left every optional key out
WindowCatalogue ==
    << [gazeDirection |-> "center",
        headPose |-> [yaw |-> Q(2, 1), pitch |-> Q(-1, 1), roll |-> Zero],
        textScores |-> [semantic_relevance |-> Q(4, 5), sentiment_score |-> Q(1, 5),
                        answer_coherence |-> Q(3, 5)],
        speechFeatures |-> [speaking_rate |-> Q(130, 1), pitch |-> Q(200, 1),
                            pause_duration |-> Q(1, 5)],
        fusedVector |-> <<Q(3, 5), Q(2, 5), Zero, Q(130, 1), Q(200, 1), Q(1, 5),
                          Q(4, 5), Q(1, 5), Q(3, 5), One>>],
       [gazeDirection |-> "unknown",
        headPose |-> [yaw |-> Zero, pitch |-> Zero, roll |-> Zero],
        textScores |-> [semantic_relevance |-> Zero, sentiment_score |-> Zero,
                        answer_coherence |-> Zero],
        speechFeatures |-> [speaking_rate |-> Zero, pitch |-> Zero,
                            pause_duration |-> Q(2900, 1)],
        fusedVector |-> <<Zero, One, Zero, Zero, Zero, Q(2900, 1),
                          Zero, Zero, Zero, Zero>>],
       [gazeDirection |-> "left",
        headPose |-> [yaw |-> Q(-40, 1), pitch |-> Q(25, 1), roll |-> Q(10, 1)],
        textScores |-> [semantic_relevance |-> Q(-1, 2), sentiment_score |-> Q(-1, 2),
                        answer_coherence |-> Q(2, 3)],
        speechFeatures |-> [speaking_rate |-> Q(150, 1), pitch |-> Q(180, 1),
                            pause_duration |-> Q(3, 5)],
        fusedVector |-> <<Zero, Q(1, 2), Q(1, 2), Q(150, 1), Q(180, 1), Q(3, 5),
                          Q(-1, 2), Q(-1, 2), Q(2, 3), Zero>>],
       NoRecord >>

PointCatalogue ==
    << [timestamp |-> Zero, dominantEmotion |-> "neutral",
        emotionScores |-> << <<"neutral", One>> >>],
       [timestamp |-> Q(3, 10), dominantEmotion |-> "happy",
        emotionScores |-> << <<"happy", Q(3, 5)>>, <<"neutral", Q(2, 5)>> >>],
       [timestamp |-> One, dominantEmotion |-> "happy",
        emotionScores |-> << <<"happy", One>> >>],
       [timestamp |-> Q(2, 1), dominantEmotion |-> "neutral",
        emotionScores |-> EmptyDict] >>

LabelCatalogue ==
    << [label |-> "Strong", textRelevanceScore |-> Q(80, 1)],
       [label |-> "Weak", textRelevanceScore |-> Q(25, 1)],
       [label |-> "Weak"] >>

EngagementMetricsInputs ==
    {NoRecord,
     [eyeContactRatio |-> Q(3, 4), overallEngagement |-> Q(3, 5)],
     [eyeContactRatio |-> Q(85, 1), overallEngagement |-> Hundred],
     [eyeContactRatio |-> Q(-1, 4)]}

SpeechQualityInputs ==
    {NoRecord,
     [averagePauseDuration |-> Q(7, 20), speakingRateWpm |-> Q(108, 1),
      prosodyScore |-> Q(1, 2)],
     [averagePauseDuration |-> Q(2900, 1), speakingRateWpm |-> Zero,
      prosodyScore |-> Q(3, 1)]}

TimelineInputs ==
    {None,
     [speechTimeline |-> << [pitch |-> Q(200, 1)], [pitch |-> Q(180, 1)],
                            [pitch |-> None] >>],
     [speechTimeline |-> << [pitch |-> Q(90, 1)], [pitch |-> Q(420, 1)] >>]}

InitScore ==
    /\ engagement_metrics \in EngagementMetricsInputs
    /\ emotion_trajectory \in Streams(PointCatalogue, MaxPoints)
    /\ speech_quality_metrics \in SpeechQualityInputs
    /\ segment_labels \in Streams(LabelCatalogue, MaxLabels)
    /\ fused_feature_vectors \in Streams(WindowCatalogue, MaxWindows)
    /\ timeline_arrays \in TimelineInputs
    /\ score_pc = "start" /\ session_scores = NoRecord
    /\ video_features = <<>> /\ audio_segment_features = <<>>
    /\ text_segment_features = <<>> /\ window_size_seconds = Zero
    /\ FuseIdle
    /\ AdvIdle
    /\ AuditorsNew
    /\ RubricIdle
    /\ RaceIdle
    /\ TwiceIdle
    /\ StoreIdle
    /\ MapIdle
    /\ BandIdle
    /\ JobIdle
    /\ PipeIdle

\* score_calculator.py lines 83-162: the whole call
ComputeSessionScores ==
    /\ score_pc = "start"
    /\ session_scores' =
           compute_session_scores(engagement_metrics, emotion_trajectory,
                                  speech_quality_metrics, segment_labels,
                                  fused_feature_vectors, timeline_arrays)
    /\ score_pc' = "done"
    /\ UNCHANGED <<engagement_metrics, emotion_trajectory, speech_quality_metrics,
                   segment_labels, fused_feature_vectors, timeline_arrays>>

NextScore ==
    ComputeSessionScores /\ UNCHANGED <<fuseVars, advVars, neutralVars, biasVars, rubricVars, raceVars, twiceVars, storeVars, mapVars, bandVars, jobVars, pipeVars>>

SpecScore == InitScore /\ [][NextScore]_vars

-----------------------------------------------------------------------------
(* Claims about compute_session_scores                                     *)

SummaryKeys ==
    {"engagementScore", "confidenceScore", "speechFluency", "emotionalStability",
     "contentRelevanceScore", "overallPerformanceScore",
     "communicationEffectiveness", "interviewReadiness"}

InPercentRange(x) == QLe(Zero, x) /\ QLe(x, Hundred)

\* C2: for any inputs, empty lists and dicts included, compute_session_scores
\* raises no exception and returns summaryScores whose eight values all lie in
\* [0, 100].
C2_ScoresInRange ==
    score_pc = "done" =>
        /\ session_scores.status = "returned"
        /\ DOMAIN session_scores.summaryScores = SummaryKeys
        /\ \A k \in SummaryKeys : InPercentRange(session_scores.summaryScores[k])

\* what the code does keep: a call that returns has its eight values in range
C2_ReturnedInRange ==
    (score_pc = "done" /\ session_scores.status = "returned") =>
        /\ DOMAIN session_scores.summaryScores = SummaryKeys
        /\ \A k \in SummaryKeys : InPercentRange(session_scores.summaryScores[k])

\* a call over a window with a 2900 s pause has ended in OverflowError
C2_Overflow ==
    /\ score_pc = "done"
    /\ session_scores.status = "OverflowError"
    /\ \E i \in 1..Len(fused_feature_vectors) :
           Get(fused_feature_vectors[i], "fusedVector", <<>>) # <<>>
           /\ fused_feature_vectors[i].fusedVector[6] = Q(2900, 1)

-----------------------------------------------------------------------------
(* compute_advanced_multimodal_scores as an operation                      *)

\* torch.sigmoid of the encoder's four logits: float32 values in [0, 1], both
\* ends included because float32 saturates
SigmoidOutputs ==
    { <<Zero, Zero, Zero, Zero>>, <<One, One, One, One>>,
      <<Q(3717, 10000), Zero, One, Q(5, 8)>> }

InitAdvanced ==
    /\ engagement_metrics \in EngagementMetricsInputs
    /\ speech_quality_metrics \in SpeechQualityInputs
    /\ segment_labels \in Streams(LabelCatalogue, MaxLabels)
    /\ fused_feature_vectors \in Streams(WindowCatalogue, MaxWindows)
    /\ torch_available \in BOOLEAN
    /\ adv_pc = "start" /\ advanced_scores = NoRecord
    /\ emotion_trajectory = <<>> /\ timeline_arrays = None
    /\ score_pc = "start" /\ session_scores = NoRecord
    /\ video_features = <<>> /\ audio_segment_features = <<>>
    /\ text_segment_features = <<>> /\ window_size_seconds = Zero
    /\ FuseIdle
    /\ AuditorsNew
    /\ RubricIdle
    /\ RaceIdle
    /\ TwiceIdle
    /\ StoreIdle
    /\ MapIdle
    /\ BandIdle
    /\ JobIdle
    /\ PipeIdle

\* advanced_scoring.py lines 187-198: the whole call
ComputeAdvancedScores ==
    /\ adv_pc = "start"
    /\ \E sigmoid \in SigmoidOutputs :
           advanced_scores' =
               AdvancedPredict(engagement_metrics, speech_quality_metrics,
                               segment_labels, fused_feature_vectors,
                               torch_available, sigmoid)
    /\ adv_pc' = "done"
    /\ UNCHANGED torch_available

NextAdvanced ==
    ComputeAdvancedScores /\ UNCHANGED <<fuseVars, scoreVars, neutralVars, biasVars, rubricVars, raceVars, twiceVars, storeVars, mapVars, bandVars, jobVars, pipeVars>>

SpecAdvanced == InitAdvanced /\ [][NextAdvanced]_vars

-----------------------------------------------------------------------------
(* Claims about compute_advanced_multimodal_scores                         *)

\* C3: for any inputs, empty metrics, no labels and no windows included, each
\* of engagement, communicationClarity, interviewComprehension and
\* overallPerformance lies in [0, 100], whatever the regression heads and the
\* encoder or its fallback contribute.
C3_AdvancedInRange ==
    adv_pc = "done" =>
        /\ advanced_scores.status = "returned"
        /\ \A k \in AdvancedKeys : InPercentRange(advanced_scores[k])

\* a call with no metrics, labels or windows has returned, and so has a call
\* whose fallback blend was negative before its clamp
C3_Witness ==
    /\ adv_pc = "done"
    /\ advanced_scores.status = "returned"
    /\ \/ /\ engagement_metrics = NoRecord /\ speech_quality_metrics = NoRecord
          /\ segment_labels = <<>> /\ fused_feature_vectors = <<>>
          /\ torch_available
          /\ advanced_scores.diagnostics.transformerScores.engagement = Hundred
       \/ /\ ~torch_available
          /\ QLt(_build_text_embedding(segment_labels, fused_feature_vectors)[2], Zero)
          /\ segment_labels = <<>>
          /\ advanced_scores.diagnostics.transformerScores.interviewComprehension = Zero

-----------------------------------------------------------------------------
(* The two auditors as operations                                          *)

\* analyze_score_fairness, fairness.py lines 15-84: the whole call
Analyze(session_id, core_scores, metrics, speech, labels) ==
    LET sample == FairnessSample(session_id, core_scores, metrics, speech, labels)
        history == LastSamples(Append(neutral_history, sample), NeutralMaxSamples)
    IN  /\ neutral_history' = history
        /\ fairness_report' = FairnessReport(history)

\* audit_scoring_bias, score_calculator.py lines 30-77: the whole call
Audit(session_context, summary_scores) ==
    /\ bias_history' = BiasHistoryAfter(bias_history, session_context, summary_scores)
    /\ bias_audit' = BiasReport(bias_history, session_context, summary_scores)

\* what one analysis job hands to analyze_score_fairness: a steady session, one
\* with the same eye contact but weak answers and an engagement score above
\* the scale, one that looks away, and one with nothing measured
NeutralInputs ==
    << [core_scores |-> [engagement |-> Q(40, 1), communicationClarity |-> Q(60, 1),
                         interviewComprehension |-> Q(70, 1),
                         overallPerformance |-> Q(50, 1)],
        engagement_metrics |-> [eyeContactRatio |-> Q(9, 10)],
        speech_quality_metrics |-> [speakingRateWpm |-> Q(130, 1),
                                    averagePauseDuration |-> Q(3, 10)],
        segment_labels |-> << [textRelevanceScore |-> Q(85, 1)] >>],
       [core_scores |-> [engagement |-> Q(140, 1), communicationClarity |-> Q(60, 1),
                         interviewComprehension |-> Q(70, 1),
                         overallPerformance |-> Q(50, 1)],
        engagement_metrics |-> [eyeContactRatio |-> Q(90, 1)],
        speech_quality_metrics |-> [speakingRateWpm |-> Q(130, 1),
                                    averagePauseDuration |-> Q(3, 10)],
        segment_labels |-> << [textRelevanceScore |-> Q(70, 1)],
                              [textRelevanceScore |-> Q(30, 1)] >>],
       [core_scores |-> [engagement |-> Q(90, 1), communicationClarity |-> Q(78, 1),
                         interviewComprehension |-> Q(80, 1),
                         overallPerformance |-> Q(69, 1)],
        engagement_metrics |-> [eyeContactRatio |-> Q(1, 5)],
        speech_quality_metrics |-> [speakingRateWpm |-> Q(130, 1),
                                    averagePauseDuration |-> Q(7, 10)],
        segment_labels |-> << [textRelevanceScore |-> Q(85, 1)] >>],
       [core_scores |-> NoRecord, engagement_metrics |-> NoRecord,
        speech_quality_metrics |-> NoRecord, segment_labels |-> <<>>] >>

\* what a caller hands to audit_scoring_bias: the session context as key/value
\* pairs in insertion order, and the summary scores
BiasInputs ==
    << [session_context |-> << <<"jobRole", <<"str", "engineer">> >>,
                               <<"gender", <<"str", "f">> >> >>,
        summary_scores |-> [overallPerformanceScore |-> Q(50, 1)]],
       [session_context |-> << <<"gender", <<"str", "m">> >> >>,
        summary_scores |-> [overallPerformanceScore |-> Q(65, 1)]],
       [session_context |-> << <<"gender", <<"str", "m">> >>,
                               <<"age", <<"int", "30">> >> >>,
        summary_scores |-> [overallPerformanceScore |-> Q(70, 1)]],
       [session_context |-> << <<"age", <<"str", "30">> >>,
                               <<"camera_brand", <<"str", "acme">> >> >>,
        summary_scores |-> [overallPerformanceScore |-> Q(90, 1)]],
       [session_context |-> << <<"gender", None>>,
                               <<"network_quality", <<"str", "poor">> >>,
                               <<"lighting_condition", None>> >>,
        summary_scores |-> [overallPerformanceScore |-> Q(10, 1)]],
       [session_context |-> << <<"age", <<"str", "41">> >> >>,
        summary_scores |-> NoRecord] >>

\* the next analyze call, for a session that is the k-th of NeutralInputs; the
\* session id is the number of the call
\* a variant of analyze that would write the clamped values back into the dict
CoreScoresAfterAnalyze_clamped(core_scores) ==
    [key \in DOMAIN core_scores |-> QMax(Zero, QMin(Hundred, core_scores[key]))]

\* the caller's dict after analyze returned: analyze reads it with .get and
\* builds its own `scores` dict, no statement stores into core_scores
CoreScoresAfterAnalyze(core_scores) ==
    core_scores

\* a variant of audit that would pull the overall score towards the mean of
\* the scores in its history
SummaryScoresAfterAudit_levelled(summary_scores) ==
    IF bias_history = <<>> \/ "overallPerformanceScore" \notin DOMAIN summary_scores
    THEN summary_scores
    ELSE [summary_scores EXCEPT !.overallPerformanceScore = QInt(Len(bias_history))]

\* the caller's dict after audit returned: audit reads overallPerformanceScore
\* with .get, no statement stores into summary_scores
SummaryScoresAfterAudit(summary_scores) ==
    summary_scores

AnalyzeInput(k) ==
    /\ Analyze(Len(neutral_log) + 1, NeutralInputs[k].core_scores,
               NeutralInputs[k].engagement_metrics,
               NeutralInputs[k].speech_quality_metrics,
               NeutralInputs[k].segment_labels)
    /\ neutral_log' = Append(neutral_log, k)
    /\ caller_core_scores' = CoreScoresAfterAnalyze(NeutralInputs[k].core_scores)

\* the next audit call, with the k-th of BiasInputs
AuditInput(k) ==
    /\ Audit(BiasInputs[k].session_context, BiasInputs[k].summary_scores)
    /\ bias_log' = Append(bias_log, k)
    /\ caller_summary_scores' = SummaryScoresAfterAudit(BiasInputs[k].summary_scores)

InitAuditors ==
    /\ AuditorsNew
    /\ RubricIdle
    /\ RaceIdle
    /\ TwiceIdle
    /\ StoreIdle
    /\ MapIdle
    /\ BandIdle
    /\ JobIdle
    /\ PipeIdle
    /\ video_features = <<>> /\ audio_segment_features = <<>>
    /\ text_segment_features = <<>> /\ window_size_seconds = Zero
    /\ FuseIdle /\ ScoreIdle /\ AdvIdle

-----------------------------------------------------------------------------
(* The neutral auditor over a short run of jobs                            *)

MaxAnalyzeCalls == 16
NeutralWarmup == 10

\* the first jobs alternate between the first two kinds of session; later
\* jobs are of any kind
NeutralInputsAt(n) ==
    IF n <= NeutralWarmup THEN {((n - 1) % 2) + 1} ELSE 1..Len(NeutralInputs)

AnalyzeScoreFairness ==
    /\ Len(neutral_log) < MaxAnalyzeCalls
    /\ \E k \in NeutralInputsAt(Len(neutral_log) + 1) : AnalyzeInput(k)

NextNeutral ==
    AnalyzeScoreFairness /\ UNCHANGED <<fuseVars, scoreVars, advVars, biasVars, rubricVars, raceVars, twiceVars, storeVars, mapVars, bandVars, jobVars, pipeVars>>

SpecNeutral == InitAuditors /\ [][NextNeutral]_vars

-----------------------------------------------------------------------------
(* The bias auditor over a short run of calls                              *)

MaxAuditCalls == 22
BiasWarmup == 16

\* the first calls alternate between the first two contexts; later calls
\* bring any context
BiasInputsAt(n) ==
    IF n <= BiasWarmup THEN {((n - 1) % 2) + 1} ELSE 1..Len(BiasInputs)

AuditScoringBias ==
    /\ Len(bias_log) < MaxAuditCalls
    /\ \E k \in BiasInputsAt(Len(bias_log) + 1) : AuditInput(k)

NextBias ==
    AuditScoringBias /\ UNCHANGED <<fuseVars, scoreVars, advVars, neutralVars, rubricVars, raceVars, twiceVars, storeVars, mapVars, bandVars, jobVars, pipeVars>>

SpecBias == InitAuditors /\ [][NextBias]_vars

-----------------------------------------------------------------------------
(* Both auditors over runs long enough to fill their histories: a run of   *)
(* audit calls, then a run of analyze calls, the inputs taken in turn      *)

AuditRun == 640
AnalyzeRun == 1002

Run_Audit ==
    /\ Len(bias_log) < AuditRun
    /\ AuditInput((Len(bias_log) % Len(BiasInputs)) + 1)
    /\ UNCHANGED neutralVars

Run_Fairness ==
    /\ Len(bias_log) = AuditRun
    /\ Len(neutral_log) < AnalyzeRun
    /\ AnalyzeInput((Len(neutral_log) % Len(NeutralInputs)) + 1)
    /\ UNCHANGED biasVars

NextLongRun ==
    (Run_Audit \/ Run_Fairness) /\ UNCHANGED <<fuseVars, scoreVars, advVars, rubricVars, raceVars, twiceVars, storeVars, mapVars, bandVars, jobVars, pipeVars>>

SpecLongRun == InitAuditors /\ [][NextLongRun]_vars

-----------------------------------------------------------------------------
(* Claims about the auditors                                               *)

MinInt(a, b) == IF a < b THEN a ELSE b

\* the last n elements of log
Newest(log, n) == SubSeq(log, Len(log) - n + 1, Len(log))

\* the sample an analyze call appends for the k-th of NeutralInputs, but for
\* its session id
NeutralSampleOf ==
    [k \in 1..Len(NeutralInputs) |->
        FairnessSample(0, NeutralInputs[k].core_scores,
                       NeutralInputs[k].engagement_metrics,
                       NeutralInputs[k].speech_quality_metrics,
                       NeutralInputs[k].segment_labels)]

\* the samples appended by all analyze calls so far, oldest first
NeutralAppended ==
    [n \in 1..Len(neutral_log) |->
        [NeutralSampleOf[neutral_log[n]] EXCEPT !.sessionId = n]]

\* an audit call with the k-th of BiasInputs appends: its context holds a
\* sensitive key with a value
BiasAppends ==
    [k \in 1..Len(BiasInputs) |->
        \E i \in 1..Len(BiasInputs[k].session_context) :
            /\ BiasInputs[k].session_context[i][1] \in SENSITIVE_KEYS
            /\ BiasInputs[k].session_context[i][2] # None]

BiasSampleOf ==
    [k \in 1..Len(BiasInputs) |->
        BiasSample(Flagged(BiasInputs[k].session_context, SENSITIVE_KEYS),
                   BiasInputs[k].summary_scores)]

\* the samples appended by all audit calls so far, oldest first
BiasAppended ==
    MapSeq(SelectSeq(bias_log, LAMBDA k : BiasAppends[k]), LAMBDA k : BiasSampleOf[k])

\* C4: after any sequence of sequential auditor calls the neutral history
\* holds at most 1000 samples and the bias history at most 500; each history
\* is exactly the last min(n, cap) of the n samples appended so far, in
\* insertion order, and the reported sampleCount / historySampleCount is
\* min(n, cap).
C4_HistoriesCapped ==
    /\ Len(neutral_history) <= 1000
    /\ neutral_history = Newest(NeutralAppended, MinInt(Len(NeutralAppended), 1000))
    /\ neutral_log # <<>> =>
           fairness_report.sampleCount = MinInt(Len(NeutralAppended), 1000)
    /\ Len(bias_history) <= 500
    /\ bias_history = Newest(BiasAppended, MinInt(Len(BiasAppended), 500))
    /\ bias_log # <<>> =>
           bias_audit.historySampleCount = MinInt(Len(BiasAppended), 500)

\* both histories have evicted samples: 1001 or more analyze calls and 501
\* or more appending audit calls have been made
C4_Witness ==
    /\ Len(neutral_log) > 1000 /\ Len(neutral_history) = 1000
    /\ neutral_history[1].sessionId = Len(neutral_log) - 999
    /\ fairness_report.sampleCount = 1000
    /\ Len(BiasAppended) > 500 /\ Len(bias_history) = 500
    /\ Len(bias_log) > Len(BiasAppended)
    /\ bias_audit.historySampleCount = 500

\* the retained rows of a bucket, and the spread of a score across a band's
\* buckets, computed row by row from the history
ClaimBuckets(group_key) ==
    {neutral_history[i].groups[group_key] : i \in 1..Len(neutral_history)}

ClaimBucketMean(group_key, bucket, score_name) ==
    Mean(MapSeq(SelectSeq(neutral_history, LAMBDA row : row.groups[group_key] = bucket),
                LAMBDA row : row.scores[score_name]))

ClaimSpread(group_key, score_name) ==
    LET means == {ClaimBucketMean(group_key, bucket, score_name) :
                      bucket \in ClaimBuckets(group_key)}
    IN  QSub(QMaxIn(means), QMinIn(means))

\* the last analyze call warned about score_name across group_key
Warned(group_key, score_name) ==
    \E i \in 1..Len(fairness_report.warnings) :
        /\ fairness_report.warnings[i][1] = score_name
        /\ fairness_report.warnings[i][2] = group_key

AllGroupKeys == {GroupKeys[j] : j \in 1..Len(GroupKeys)}
AllScoreNames == {ScoreNames[j] : j \in 1..Len(ScoreNames)}

\* C5: an analyze call warns about a (band, score) pair if and only if, over
\* the retained history with the current sample, the spread of the score's
\* bucket means across the band exceeds 18.0, at least 2 buckets of the band
\* are populated and the history holds at least 15 samples; so the first 14
\* calls never warn, and a band whose samples all fall in one bucket never
\* warns.
C5_WarningCondition ==
    neutral_log # <<>> =>
        /\ \A group_key \in AllGroupKeys : \A score_name \in AllScoreNames :
               Warned(group_key, score_name) <=>
                   /\ QLt(Q(18, 1), ClaimSpread(group_key, score_name))
                   /\ Cardinality(ClaimBuckets(group_key)) >= 2
                   /\ Len(neutral_history) >= 15
        /\ Len(neutral_log) <= 14 => fairness_report.warnings = <<>>
        /\ \A group_key \in AllGroupKeys :
               Cardinality(ClaimBuckets(group_key)) = 1 =>
                   \A score_name \in AllScoreNames : ~Warned(group_key, score_name)

\* the 15th or a later call warned about engagement across the eye-contact
\* band, kept silent about a spread of exactly 18, and saw one band with a
\* single bucket
C5_Witness ==
    /\ Len(neutral_history) >= 15
    /\ Warned("eyeContactBand", "engagement")
    /\ Cardinality(ClaimBuckets("eyeContactBand")) = 2
    /\ ClaimSpread("eyeContactBand", "communicationClarity") = Q(18, 1)
    /\ ~Warned("eyeContactBand", "communicationClarity")
    /\ Cardinality(ClaimBuckets("speakingRateBand")) = 1
    /\ \A score_name \in AllScoreNames : ~Warned("speakingRateBand", score_name)
    /\ Cardinality(ClaimBuckets("contentRelevanceBand")) = 2

\* the retained samples that carry a sensitive key
RowsWith(key) ==
    SelectSeq(bias_history, LAMBDA sample : DHas(sample.sensitive, key))

\* the observed values of a key as str(value), the form the auditor groups by
ObservedNames(key) ==
    {StrOf(DVal(RowsWith(key)[i].sensitive, key)) : i \in 1..Len(RowsWith(key))}

NameMean(key, name) ==
    Mean(MapSeq(SelectSeq(RowsWith(key),
                          LAMBDA sample : StrOf(DVal(sample.sensitive, key)) = name),
                LAMBDA sample : sample.overall))

NameSpread(key) ==
    LET means == {NameMean(key, name) : name \in ObservedNames(key)}
    IN  QSub(QMaxIn(means), QMinIn(means))

\* the observed values of a key as they were supplied
ObservedValues(key) ==
    {DVal(RowsWith(key)[i].sensitive, key) : i \in 1..Len(RowsWith(key))}

ValueMean(key, value) ==
    Mean(MapSeq(SelectSeq(RowsWith(key),
                          LAMBDA sample : DVal(sample.sensitive, key) = value),
                LAMBDA sample : sample.overall))

ValueSpread(key) ==
    LET means == {ValueMean(key, value) : value \in ObservedValues(key)}
    IN  QSub(QMaxIn(means), QMinIn(means))

\* the last audit call flagged a disparity for key
Disparity(key) ==
    \E i \in 1..Len(bias_audit.warnings) :
        /\ bias_audit.warnings[i][1] = "disparity"
        /\ bias_audit.warnings[i][2] = key

\* the sensitive keys the last audit call found in its context
CheckedNow(key) ==
    \E i \in 1..Len(bias_audit.checkedSensitiveAttributes) :
        bias_audit.checkedSensitiveAttributes[i] = key

\* C10 as stated: for each sensitive key with at least 2 distinct observed
\* values in the retained history, an audit call flags a disparity for the key
\* exactly when the spread of the per-value means of overallPerformanceScore
\* exceeds 15.0 and the history holds at least 20 samples.
C10_Original ==
    bias_log # <<>> =>
        \A key \in SENSITIVE_KEYS :
            Cardinality(ObservedValues(key)) >= 2 =>
                (Disparity(key) <=>
                     /\ QLt(Q(15, 1), ValueSpread(key))
                     /\ Len(bias_history) >= 20)

\* C10: an audit call flags a disparity for a sensitive key exactly when the
\* key is present with a value other than None in that call's own context,
\* the retained history (the call's sample included) holds at least 2 values
\* of the key that differ as strings, the spread of the per-string means of
\* overallPerformanceScore exceeds 15.0 and the history holds at least 20
\* samples.
C10_DisparityCondition ==
    bias_log # <<>> =>
        \A key \in SENSITIVE_KEYS :
            Disparity(key) <=>
                /\ CheckedNow(key)
                /\ Cardinality(ObservedNames(key)) >= 2
                /\ QLt(Q(15, 1), NameSpread(key))
                /\ Len(bias_history) >= 20

\* a call with gender in its context flagged gender at 20 or more samples,
\* while age, absent from that context, went unflagged
C10_Witness ==
    /\ Len(bias_history) >= 20
    /\ Disparity("gender")
    /\ CheckedNow("gender") /\ ~CheckedNow("age")
    /\ Cardinality(ObservedNames("age")) >= 2
    /\ QLt(Q(15, 1), NameSpread("age"))
    /\ ~Disparity("age")

-----------------------------------------------------------------------------
(* Claims about what an audit call accumulates and reports                 *)

\* the irrelevant keys a context holds, and those it holds with a value
IrrelevantPresent(session_context) ==
    {session_context[i][1] : i \in {j \in 1..Len(session_context) :
                                        session_context[j][1] \in IRRELEVANT_KEYS}}

IrrelevantWithValue(session_context) ==
    {session_context[i][1] : i \in {j \in 1..Len(session_context) :
                                        /\ session_context[j][1] \in IRRELEVANT_KEYS
                                        /\ session_context[j][2] # None}}

ReportedIrrelevant(report) ==
    {report.checkedIrrelevantAttributes[i] :
         i \in 1..Len(report.checkedIrrelevantAttributes)}

NoDisparityIn(report) ==
    \A i \in 1..Len(report.warnings) : report.warnings[i][1] # "disparity"

\* the step is an audit call with the k-th of BiasInputs
IsAuditOf(k) == bias_log' = Append(bias_log, k)

\* what the claim says of the histories before and after a call with the
\* k-th of BiasInputs; found(session_context) is the set of irrelevant keys
\* the report has to name
C11_Step(k, found(_)) ==
    /\ ReportedIrrelevant(bias_audit') = found(BiasInputs[k].session_context)
    /\ ~BiasAppends[k] =>
           /\ bias_history' = bias_history
           /\ bias_audit'.historySampleCount = Len(bias_history)
           /\ NoDisparityIn(bias_audit')
    /\ BiasAppends[k] =>
           /\ Len(bias_history) < 500 => Len(bias_history') = Len(bias_history) + 1
           /\ SubSeq(bias_history', 1, Len(bias_history') - 1) =
                  Newest(bias_history, Len(bias_history') - 1)
           /\ bias_history'[Len(bias_history')] = BiasSampleOf[k]

\* C11 as stated: every irrelevant key found in the context is reported,
\* whatever value it carries.
C11_Original ==
    [][\A k \in 1..Len(BiasInputs) : IsAuditOf(k) => C11_Step(k, IrrelevantPresent)]_vars

\* C11: an audit call whose context holds no sensitive key with a value other
\* than None leaves the bias history unchanged, does not raise
\* historySampleCount and flags no disparity; a call with such a key appends
\* exactly one sample; either call reports in checkedIrrelevantAttributes
\* exactly the irrelevant keys whose value is not None.
C11_SensitiveGate ==
    [][\A k \in 1..Len(BiasInputs) : IsAuditOf(k) => C11_Step(k, IrrelevantWithValue)]_vars

\* the last call brought gender as None and two irrelevant keys, one of them
\* None, at a time the retained gender groups were 20 samples and more than
\* 15 apart: nothing was appended or flagged, and network_quality was reported
C11_Witness ==
    /\ bias_log # <<>> /\ bias_log[Len(bias_log)] = 5
    /\ Len(bias_history) >= 20 /\ Len(bias_history) < Len(bias_log)
    /\ QLt(Q(15, 1), NameSpread("gender"))
    /\ bias_audit.historySampleCount = Len(bias_history)
    /\ bias_audit.checkedIrrelevantAttributes = <<"network_quality">>
    /\ NoDisparityIn(bias_audit)

-----------------------------------------------------------------------------
(* Claims about what an auditor call leaves to its caller                  *)

\* the step is an analyze call with the k-th of NeutralInputs
IsAnalyzeOf(k) == neutral_log' = Append(neutral_log, k)

-----------------------------------------------------------------------------
(* score_to_level on its own                                               *)

\* the grid of scores runs from 0 in steps of 5
RubricGrid == 20

\* scores handed to score_to_level: the grid, the thresholds and their
\* neighbours a thousandth away, and scores outside the scale
RubricScores ==
    {Q(5 * i, 1) : i \in 0..RubricGrid}
        \cup {Q(n, 1000) : n \in {-5000, -1, 1, 69999, 70001, 84999, 85001,
                                  99999, 100001, 140000}}

RubricDimensions == {"communication", "technical_clarity", "behavioral_response",
                     "engagement"}

InitRubric ==
    /\ rubric_score \in RubricScores
    /\ rubric_dimension \in RubricDimensions
    /\ rubric_pc = "start" /\ rubric_level = NoRecord
    /\ video_features = <<>> /\ audio_segment_features = <<>>
    /\ text_segment_features = <<>> /\ window_size_seconds = Zero
    /\ FuseIdle
    /\ ScoreIdle
    /\ AdvIdle
    /\ AuditorsNew
    /\ RaceIdle
    /\ TwiceIdle
    /\ StoreIdle
    /\ MapIdle
    /\ BandIdle
    /\ JobIdle
    /\ PipeIdle

ScoreToLevel ==
    /\ rubric_pc = "start"
    /\ rubric_level' = score_to_level(rubric_score, RubricLevels(rubric_dimension))
    /\ rubric_pc' = "done"
    /\ UNCHANGED <<rubric_score, rubric_dimension>>

NextRubric ==
    ScoreToLevel
        /\ UNCHANGED <<fuseVars, scoreVars, advVars, neutralVars, biasVars, raceVars, twiceVars, storeVars, mapVars, bandVars, jobVars, pipeVars>>

SpecRubric == InitRubric /\ [][NextRubric]_vars

\* C13: score_to_level returns exactly one of the dimension's levels:
\* Excellent if and only if the score is at least 85, Good if and only if it
\* is at least 70 and below 85, and the lowest level (labelled
\* "Needs Improvement") if and only if it is below 70.
C13_Thresholds ==
    rubric_pc = "done" =>
        LET levels == RubricLevels(rubric_dimension)
        IN  /\ \E i \in 1..Len(levels) : rubric_level = levels[i]
            /\ rubric_level.label = "Excellent" <=> QLe(Q(85, 1), rubric_score)
            /\ rubric_level.label = "Good" <=>
                   (QLe(Q(70, 1), rubric_score) /\ QLt(rubric_score, Q(85, 1)))
            /\ rubric_level = levels[Len(levels)] <=> QLt(rubric_score, Q(70, 1))
            /\ rubric_score = Q(85, 1) => rubric_level.label = "Excellent"
            /\ rubric_score = Q(84999, 1000) => rubric_level.label = "Good"
            /\ rubric_score = Zero => rubric_level = levels[Len(levels)]

\* a score of exactly 85 was mapped, to Excellent
C13_Witness ==
    /\ rubric_pc = "done" /\ rubric_score = Q(85, 1)
    /\ rubric_level.label = "Excellent"

-----------------------------------------------------------------------------
(* Auditor calls on concurrent threads                                     *)
(* The API's endpoints are plain functions, which the server runs on a     *)
(* thread pool; both auditors are module-level objects shared by them.     *)

\* the number of calls in flight
RaceCalls == 2

RaceThreads == 1..RaceCalls

\* the samples of earlier, completed calls are numbered 1 - n .. 0
RacePrefilled(n) == [i \in 1..n |-> i - n]

\* the shared auditor is the neutral analyzer or the bias auditor, and its
\* history is empty, one short of full, or full
InitRace ==
    /\ race_cap \in {NeutralMaxSamples, BiasMaxSamples}
    /\ race_prefill \in {0, race_cap - 1, race_cap}
    /\ race_history = RacePrefilled(race_prefill)
    /\ race_pc = [t \in RaceThreads |-> "start"]
    /\ race_local = [t \in RaceThreads |-> <<>>]
    /\ race_count = [t \in RaceThreads |-> 0]
    /\ video_features = <<>> /\ audio_segment_features = <<>>
    /\ text_segment_features = <<>> /\ window_size_seconds = Zero
    /\ FuseIdle
    /\ ScoreIdle
    /\ AdvIdle
    /\ AuditorsNew
    /\ RubricIdle
    /\ TwiceIdle
    /\ StoreIdle
    /\ MapIdle
    /\ BandIdle
    /\ JobIdle
    /\ PipeIdle

\* self._history.append(sample)
RaceAppend(t) ==
    /\ race_pc[t] = "start"
    /\ race_history' = Append(race_history, t)
    /\ race_pc' = [race_pc EXCEPT ![t] = "appended"]
    /\ UNCHANGED <<race_cap, race_prefill, race_local, race_count>>

\* the right-hand side of self._history = self._history[-self._max_samples:]
RaceSlice(t) ==
    /\ race_pc[t] = "appended"
    /\ race_local' = [race_local EXCEPT ![t] = LastSamples(race_history, race_cap)]
    /\ race_pc' = [race_pc EXCEPT ![t] = "sliced"]
    /\ UNCHANGED <<race_cap, race_prefill, race_history, race_count>>

\* the assignment to self._history
RaceStore(t) ==
    /\ race_pc[t] = "sliced"
    /\ race_history' = race_local[t]
    /\ race_pc' = [race_pc EXCEPT ![t] = "stored"]
    /\ UNCHANGED <<race_cap, race_prefill, race_local, race_count>>

\* the len(self._history) of the report the call returns
RaceReport(t) ==
    /\ race_pc[t] = "stored"
    /\ race_count' = [race_count EXCEPT ![t] = Len(race_history)]
    /\ race_pc' = [race_pc EXCEPT ![t] = "done"]
    /\ UNCHANGED <<race_cap, race_prefill, race_history, race_local>>

NextRace ==
    /\ \E t \in RaceThreads :
           RaceAppend(t) \/ RaceSlice(t) \/ RaceStore(t) \/ RaceReport(t)
    /\ UNCHANGED <<fuseVars, scoreVars, advVars, neutralVars, biasVars, rubricVars,
                   twiceVars, storeVars, mapVars, bandVars, jobVars, pipeVars>>

SpecRace == InitRace /\ [][NextRace]_vars

RaceAllReturned == \A t \in RaceThreads : race_pc[t] = "done"

\* the positions of sample x in the history
RacePositions(x) == {i \in 1..Len(race_history) : race_history[i] = x}

\* C14: when two or more auditor calls run concurrently with no locking,
\* every call's sample is appended and eviction stays first-in first-out:
\* once all calls have returned the history holds one sample per call behind
\* the newest of the earlier samples, up to the cap, no sample of a completed
\* call is lost, and no call has reported a sample count above the cap.
C14_NoSampleLost ==
    /\ \A t \in RaceThreads : race_pc[t] = "done" => race_count[t] <= race_cap
    /\ RaceAllReturned =>
           /\ Len(race_history) = MinInt(race_cap, race_prefill + RaceCalls)
           /\ \A t \in RaceThreads : Cardinality(RacePositions(t)) = 1
           /\ \A i \in 1..(Len(race_history) - RaceCalls) :
                  race_history[i] = i - (Len(race_history) - RaceCalls)

-----------------------------------------------------------------------------
(* Claims about compute_engagement_score                                   *)

\* the share of the windows whose gaze label is the most frequent one, and the
\* share whose label is "center"
GazeLabels(windows) ==
    [i \in 1..Len(windows) |-> Get(windows[i], "gazeDirection", "unknown")]

DominantGazeRatio(windows) ==
    LET labels == GazeLabels(windows)
        counts == {CountOf(labels, labels[i]) : i \in 1..Len(labels)}
    IN  Q(CHOOSE c \in counts : \A d \in counts : d <= c, Len(windows))

CenterGazeRatio(windows) ==
    Q(CountOf(GazeLabels(windows), "center"), Len(windows))

MeanAbsoluteHeadMotion(windows) ==
    QDiv(QSum([i \in 1..Len(windows) |-> HeadMotion(windows[i])]), QInt(Len(windows)))

\* 0.4*eyeContactPct + 0.35*gazeStability + 0.25*headMotionScore, clamped
EngagementClosedForm(eye_contact_pct, gaze_stability, mean_head_motion) ==
    LET head_motion_score ==
            QMax(Zero, QMin(Hundred, QSub(Hundred, QMul(Q(3, 2), mean_head_motion))))
        total == QAdd(QAdd(QMul(Q(2, 5), eye_contact_pct),
                           QMul(Q(7, 20), gaze_stability)),
                      QMul(Q(1, 4), head_motion_score))
    IN  QMax(Zero, QMin(Hundred, total))

\* the closed form over the windows of the call; for an empty window list the
\* gaze stability and the mean head motion are the two values given
EngagementExpected(empty_gaze_stability, empty_head_motion) ==
    LET eye_contact_pct ==
            _normalize_percent(Get(engagement_metrics, "eyeContactRatio", Zero))
    IN  IF fused_feature_vectors = <<>>
        THEN EngagementClosedForm(eye_contact_pct, empty_gaze_stability,
                                  empty_head_motion)
        ELSE EngagementClosedForm(
                 eye_contact_pct,
                 QMul(Hundred,
                      QAdd(QMul(Q(1, 2), DominantGazeRatio(fused_feature_vectors)),
                           QMul(Q(1, 2), CenterGazeRatio(fused_feature_vectors)))),
                 MeanAbsoluteHeadMotion(fused_feature_vectors))

EngagementAgrees(expected) ==
    score_pc = "done" =>
        /\ compute_engagement_score(engagement_metrics, fused_feature_vectors).score
               = expected
        /\ session_scores.status = "returned" =>
               session_scores.summaryScores.engagementScore = QRound(expected, 2)

\* C15 as stated: the closed form holds for an empty window list too, where no
\* window has a gaze label or a head pose (both ratios and the mean are 0).
C15_Original == EngagementAgrees(EngagementExpected(Zero, Zero))

\* C15: compute_engagement_score returns clamp(0.4*eyeContactPct +
\* 0.35*gazeStability + 0.25*headMotionScore, 0, 100) with gazeStability =
\* 100*(0.5*dominantGazeRatio + 0.5*centerGazeRatio) and headMotionScore =
\* clamp(100 - 1.5*meanAbsoluteHeadMotion, 0, 100) whenever there is a window;
\* for an empty window list it takes gazeStability = 40 and a mean head
\* motion of 20 (headMotionScore = 70).
C15_ClosedForm == EngagementAgrees(EngagementExpected(Q(40, 1), Q(20, 1)))

\* eyeContactRatio 0.75 and no windows gave 0.4*75 + 0.35*40 + 0.25*70 = 61.5
C15_Witness ==
    /\ score_pc = "done" /\ fused_feature_vectors = <<>>
    /\ Get(engagement_metrics, "eyeContactRatio", Zero) = Q(3, 4)
    /\ session_scores.status = "returned"
    /\ session_scores.summaryScores.engagementScore = Q(123, 2)

-----------------------------------------------------------------------------
(* fuse_multimodal_features called twice on the same inputs                *)

\* the caller keeps the first result and calls again with the arguments it
\* passed before (use_learned_fusion is False in both calls)
Fuse_Again ==
    /\ fuse_pc = "done" /\ fuse_round = 1
    /\ fuse_first' = fused
    /\ fuse_round' = 2
    /\ fuse_pc' = "start"
    /\ UNCHANGED <<video_features, audio_segment_features, text_segment_features,
                   window_size_seconds, window_size, max_time, cursor, fused_segments,
                   slices, fused>>

NextFuseTwice ==
    \/ /\ Fuse_Begin \/ Fuse_Window \/ Fuse_Finish
       /\ UNCHANGED <<scoreVars, advVars, neutralVars, biasVars, rubricVars, raceVars,
                      twiceVars, storeVars, mapVars, bandVars, jobVars, pipeVars>>
    \/ /\ Fuse_Again
       /\ UNCHANGED <<scoreVars, advVars, neutralVars, biasVars, rubricVars, raceVars,
                      storeVars, mapVars, bandVars, jobVars, pipeVars>>

SpecFuseTwice == InitFuse /\ [][NextFuseTwice]_vars

-----------------------------------------------------------------------------
(* services/session_store.py: the live-interview state of one session      *)
(* A timestamp is the number of calls made before it was taken; a value    *)
(* that is None in Python is "None" where a string may stand and NoTime    *)
(* where a timestamp may stand. Of data_json the model keeps status,       *)
(* questions, responses and liveInterview.                                 *)

NoValue == "None"
NoTime == -1

\* what a method returns: None, or a value
ReturnedNone == [none |-> TRUE]
Returned(value) == [none |-> FALSE, value |-> value]

\* the session the store holds, and an id it does not hold
SessionId == "s1"
StoreSessionIds == {"s1", "missing"}

\* _build_placeholder_questions
PlaceholderQuestions ==
    << [questionId |-> "q1", questionText |-> "Hi, great to meet you. ..."],
       [questionId |-> "q2", questionText |-> "What interests you most ..."],
       [questionId |-> "q3", questionText |-> "Let's go deeper technically ..."],
       [questionId |-> "q4", questionText |-> "Tell me about a time ..."],
       [questionId |-> "q5", questionText |-> "If you joined tomorrow ..."] >>

\* create_session, lines 25-52: session_data
NewSession ==
    [status |-> "started",
     questions |-> PlaceholderQuestions,
     responses |-> <<>>,
     liveInterview |->
         [active |-> FALSE, complete |-> FALSE, questionIndex |-> 0,
          currentQuestionId |-> NoValue, currentQuestionText |-> NoValue,
          currentQuestionAskedAt |-> NoTime, turns |-> <<>>,
          timelineMarkers |-> <<>>, clarificationCounts |-> <<>>]]

\* a variant that keeps the turns and markers of an earlier interview but
\* does not reopen the state
initialize_live_interview_inactive(data, now) ==
    IF data.questions = <<>> THEN [data |-> data, returned |-> ReturnedNone]
    ELSE LET first_question == data.questions[1]
             live_state ==
                 [data.liveInterview EXCEPT
                      !.questionIndex = 0,
                      !.currentQuestionId = first_question.questionId,
                      !.currentQuestionText = first_question.questionText,
                      !.currentQuestionAskedAt = now]
         IN  [data |-> [data EXCEPT !.liveInterview = live_state,
                                    !.status = "live_started"],
              returned |-> Returned(live_state)]

\* lines 145-175, the row having been found
initialize_live_interview(data, now) ==
    IF data.questions = <<>> THEN [data |-> data, returned |-> ReturnedNone]
    ELSE LET first_question == data.questions[1]
             live_state ==
                 [active |-> TRUE, complete |-> FALSE, questionIndex |-> 0,
                  currentQuestionId |-> first_question.questionId,
                  currentQuestionText |-> first_question.questionText,
                  currentQuestionAskedAt |-> now,
                  turns |-> << [role |-> "assistant",
                                text |-> first_question.questionText,
                                questionId |-> first_question.questionId,
                                timestamp |-> now] >>,
                  timelineMarkers |-> <<>>,
                  clarificationCounts |-> <<>>]
         IN  [data |-> [data EXCEPT !.liveInterview = live_state,
                                    !.status = "live_started"],
              returned |-> Returned(live_state)]

\* lines 223-289, the row having been found
record_live_answer(data, now, answer_text, question_asked_at, answer_started_at, answer_ended_at, transcript_confidence, skipped) ==
    LET live_state == data.liveInterview
        current_question_id == live_state.currentQuestionId
        current_question_index == live_state.questionIndex
        asked_at_dt == IF question_asked_at # NoTime THEN question_asked_at
                       ELSE live_state.currentQuestionAskedAt
        answer_started_dt == IF answer_started_at # NoTime THEN answer_started_at
                             ELSE now
        answer_ended_dt == IF answer_ended_at # NoTime THEN answer_ended_at ELSE now
        responses ==
            IF current_question_id \notin {NoValue, ""}
            THEN Append(data.responses,
                        [questionId |-> current_question_id,
                         responseText |-> answer_text,
                         submittedAt |-> now,
                         skipped |-> skipped,
                         timeline |-> [questionAskedAt |-> asked_at_dt,
                                       answerStartedAt |-> answer_started_dt,
                                       answerEndedAt |-> answer_ended_dt],
                         transcriptConfidence |-> transcript_confidence])
            ELSE data.responses
        turns == Append(live_state.turns,
                        [role |-> "user", text |-> answer_text,
                         questionId |-> current_question_id,
                         timestamp |-> now, skipped |-> skipped])
        markers == Append(live_state.timelineMarkers,
                          [questionId |-> current_question_id,
                           questionIndex |-> current_question_index,
                           questionAskedAt |-> asked_at_dt,
                           answerStartedAt |-> answer_started_dt,
                           answerEndedAt |-> answer_ended_dt,
                           submittedAt |-> now,
                           wasSkipped |-> skipped])
        after == [live_state EXCEPT !.turns = turns, !.timelineMarkers = markers]
    IN  IF ~live_state.active THEN [data |-> data, returned |-> ReturnedNone]
        ELSE [data |-> [data EXCEPT !.responses = responses,
                                    !.liveInterview = after,
                                    !.status = "live_in_progress"],
              returned |-> Returned(after)]

\* lines 291-307
record_live_skip(data, now, question_asked_at, skipped_at) ==
    LET skipped_timestamp == IF skipped_at # NoTime THEN skipped_at ELSE now
    IN  record_live_answer(data, now, "[Question skipped by user]", question_asked_at,
                           skipped_timestamp, skipped_timestamp, NoValue, TRUE)

\* lines 316-343, the row having been found
set_live_next_question(data, now, question_id, question_text, question_index) ==
    LET live_state ==
            [data.liveInterview EXCEPT
                 !.active = TRUE,
                 !.complete = FALSE,
                 !.questionIndex = question_index,
                 !.currentQuestionId = question_id,
                 !.currentQuestionText = question_text,
                 !.currentQuestionAskedAt = now,
                 !.turns = Append(@, [role |-> "assistant", text |-> question_text,
                                      questionId |-> question_id, timestamp |-> now])]
    IN  [data |-> [data EXCEPT !.liveInterview = live_state,
                               !.status = "live_in_progress"],
         returned |-> Returned(live_state)]

\* str(status).startswith("live")
StartsWithLive(status) ==
    status \in {"live_started", "live_in_progress", "live_completed"}

\* lines 346-362, the row having been found
mark_live_complete(data) ==
    LET live_state == [data.liveInterview EXCEPT !.active = FALSE, !.complete = TRUE]
    IN  [data |-> [data EXCEPT !.liveInterview = live_state,
                               !.status = IF StartsWithLive(@) THEN "live_completed"
                                          ELSE @],
         returned |-> Returned(live_state)]

\* the number of calls made on the store
MaxStoreCalls == 4

\* arguments callers pass: an answer, the next question with its index (the
\* test's, a later one, and one without an id), a client-side timestamp
AnswerTexts == {"I built model APIs."}
NextQuestions ==
    { [question_id |-> "q2", question_text |-> "How did you evaluate model quality?",
       question_index |-> 1],
      [question_id |-> "q4", question_text |-> "Tell me about a time ...",
       question_index |-> 3],
      [question_id |-> "", question_text |-> "Anything to add?", question_index |-> 5] }
ClientTimes == {NoTime, 0}

\* the state after create_session
InitStore ==
    /\ store_data = NewSession /\ store_clock = 0
    /\ store_call = [op |-> "create_session", session_id |-> SessionId]
    /\ store_returned = Returned(NewSession)
    /\ video_features = <<>> /\ audio_segment_features = <<>>
    /\ text_segment_features = <<>> /\ window_size_seconds = Zero
    /\ FuseIdle
    /\ ScoreIdle
    /\ AdvIdle
    /\ AuditorsNew
    /\ RubricIdle
    /\ RaceIdle
    /\ TwiceIdle
    /\ MapIdle
    /\ BandIdle
    /\ JobIdle
    /\ PipeIdle

\* a method call on the store: _get_session_row finds no row for an unknown
\* id and the method returns None; otherwise the method's outcome is committed
StoreCall(call, outcome) ==
    /\ store_clock < MaxStoreCalls
    /\ store_clock' = store_clock + 1
    /\ store_call' = call
    /\ IF call.session_id = SessionId
       THEN store_data' = outcome.data /\ store_returned' = outcome.returned
       ELSE store_data' = store_data /\ store_returned' = ReturnedNone

InitializeLiveInterview ==
    \E session_id \in StoreSessionIds :
        StoreCall([op |-> "initialize_live_interview", session_id |-> session_id],
                  initialize_live_interview(store_data, store_clock))

RecordLiveAnswer ==
    \E session_id \in StoreSessionIds, answer_text \in AnswerTexts,
       question_asked_at \in ClientTimes :
        StoreCall([op |-> "record_live_answer", session_id |-> session_id],
                  record_live_answer(store_data, store_clock, answer_text,
                                     question_asked_at, NoTime, NoTime, NoValue, FALSE))

RecordLiveSkip ==
    StoreCall([op |-> "record_live_skip", session_id |-> SessionId],
              record_live_skip(store_data, store_clock, NoTime, NoTime))

SetLiveNextQuestion ==
    \E next \in NextQuestions :
        StoreCall([op |-> "set_live_next_question", session_id |-> SessionId,
                   question_index |-> next.question_index],
                  set_live_next_question(store_data, store_clock, next.question_id,
                                         next.question_text, next.question_index))

MarkLiveComplete ==
    StoreCall([op |-> "mark_live_complete", session_id |-> SessionId],
              mark_live_complete(store_data))

NextStore ==
    /\ \/ InitializeLiveInterview
       \/ RecordLiveAnswer
       \/ RecordLiveSkip
       \/ SetLiveNextQuestion
       \/ MarkLiveComplete
    /\ UNCHANGED <<fuseVars, scoreVars, advVars, neutralVars, biasVars, rubricVars,
                   raceVars, twiceVars, mapVars, bandVars, jobVars, pipeVars>>

SpecStore == InitStore /\ [][NextStore]_vars

-----------------------------------------------------------------------------
(* Claims about the live-interview state                                   *)

\* the step is a call of method op on the session the store holds
StoreStepOf(op) ==
    /\ store_clock' = store_clock + 1
    /\ store_call'.op = op /\ store_call'.session_id = SessionId

LiveAnswersKept ==
    /\ store_data'.responses = store_data.responses
    /\ store_data'.liveInterview.turns = store_data.liveInterview.turns
    /\ store_data'.liveInterview.timelineMarkers =
           store_data.liveInterview.timelineMarkers

\* C17: initialize_live_interview sets active = true, complete = false and
\* questionIndex = 0 with the first question as the current one;
\* set_live_next_question sets questionIndex to the index it is given;
\* mark_live_complete sets complete = true and active = false; and whenever
\* the live state is not active, record_live_answer returns None and leaves
\* the session's responses, turns and timeline markers unchanged.
C17_LiveStateFlow ==
    [][/\ StoreStepOf("initialize_live_interview") =>
              /\ store_data'.liveInterview.active
              /\ ~store_data'.liveInterview.complete
              /\ store_data'.liveInterview.questionIndex = 0
              /\ store_data'.liveInterview.currentQuestionId =
                     store_data.questions[1].questionId
              /\ store_data'.liveInterview.currentQuestionText =
                     store_data.questions[1].questionText
       /\ StoreStepOf("set_live_next_question") =>
              store_data'.liveInterview.questionIndex = store_call'.question_index
       /\ StoreStepOf("mark_live_complete") =>
              /\ store_data'.liveInterview.complete
              /\ ~store_data'.liveInterview.active
       /\ (StoreStepOf("record_live_answer") /\ ~store_data.liveInterview.active) =>
              /\ store_returned'.none
              /\ LiveAnswersKept]_vars

\* an interview was started, answered and completed, and the answer that
\* came after completion returned None: the one response recorded before is
\* all the session holds
C17_Witness ==
    /\ store_call.op = "record_live_answer" /\ store_call.session_id = SessionId
    /\ store_returned.none
    /\ store_data.liveInterview.complete /\ ~store_data.liveInterview.active
    /\ Len(store_data.responses) = 1
    /\ Len(store_data.liveInterview.timelineMarkers) = 1
    /\ Len(store_data.liveInterview.turns) = 2

-----------------------------------------------------------------------------
(* Claims about compute_emotional_regulation_score                         *)

\* the emotionScores of the points that carry any
ScoredPoints(trajectory) ==
    SelectSeq([i \in 1..Len(trajectory) |-> Get(trajectory[i], "emotionScores", EmptyDict)],
              LAMBDA d : d # <<>>)

\* population variance, 0 for fewer than two values
VarianceOrZero(values) == IF Len(values) > 1 THEN PVariance(values) ELSE Zero

\* 100 - min(100, 280*variance of the dominant score + 220*mean over the
\* labels of the variance of the label's score)
RegulationClosedForm(trajectory) ==
    LET dicts == ScoredPoints(trajectory)
        dominant == [i \in 1..Len(dicts) |-> QMaxOf([j \in 1..Len(dicts[i]) |-> dicts[i][j][2]])]
        labels == FirstSeen(Concat([i \in 1..Len(dicts) |-> DKeys(dicts[i])]))
        series(label) ==
            LET holding == SelectSeq(dicts, LAMBDA d : DHas(d, label))
            IN  [i \in 1..Len(holding) |-> DVal(holding[i], label)]
        label_variances == [k \in 1..Len(labels) |-> VarianceOrZero(series(labels[k]))]
        mean_label_variance ==
            IF labels = <<>> THEN Zero
            ELSE QDiv(QSum(label_variances), QInt(Len(labels)))
    IN  QSub(Hundred,
             QMin(Hundred, QAdd(QMul(Q(280, 1), VarianceOrZero(dominant)),
                                QMul(Q(220, 1), mean_label_variance))))

\* the entry fuse_multimodal_features emits for an empty video stream
SyntheticNeutral ==
    << [timestamp |-> Zero, dominantEmotion |-> "neutral",
        emotionScores |-> << <<"neutral", One>> >>] >>

\* C18: compute_emotional_regulation_score returns 50 whenever the
\* trajectory has fewer than 2 points, the single synthetic neutral entry of
\* an empty video stream included; for 2 or more points it returns
\* 100 - min(100, 280*populationVariance(dominant score) + 220*mean over
\* labels of populationVariance(label score)).
C18_RegulationScore ==
    score_pc = "done" =>
        LET returned ==
                compute_emotional_regulation_score(emotion_trajectory).score
        IN  /\ Len(emotion_trajectory) < 2 => returned = Q(50, 1)
            /\ emotion_trajectory = SyntheticNeutral =>
                   (session_scores.status = "returned" =>
                        session_scores.summaryScores.emotionalStability = Q(50, 1))
            /\ Len(emotion_trajectory) >= 2 =>
                   returned = RegulationClosedForm(emotion_trajectory)

-----------------------------------------------------------------------------
(* Claims about the session speech metrics and the segment labels          *)

\* the mean of field(item) over the items of a sequence, 0 for none
MeanOver(items, field(_)) ==
    IF items = <<>> THEN Zero
    ELSE QDiv(QSum([i \in 1..Len(items) |-> field(items[i])]), QInt(Len(items)))

\* the four session metrics as means of the per-window speech aggregates
WindowSpeechMeans(windows) ==
    [averagePitch |-> MeanOver(windows, LAMBDA w : w.speechFeatures.pitch),
     averagePauseDuration |->
         MeanOver(windows, LAMBDA w : w.speechFeatures.pause_duration),
     speakingRateWpm |-> MeanOver(windows, LAMBDA w : w.speechFeatures.speaking_rate),
     prosodyScore |-> MeanOver(windows, LAMBDA w : w.speechFeatures.prosody_score)]

\* the four session metrics as means over the audio segments themselves
SegmentSpeechMeans(audio_segments) ==
    [averagePitch |-> MeanOver(audio_segments, LAMBDA a : Get(a, "pitch", Zero)),
     averagePauseDuration |->
         MeanOver(audio_segments, LAMBDA a : Get(a, "pause_duration", Zero)),
     speakingRateWpm |->
         MeanOver(audio_segments, LAMBDA a : Get(a, "speaking_rate", Zero)),
     prosodyScore |-> MeanOver(audio_segments, LogMelStd)]

\* C19 as stated: the session speech metrics are the means of the per-window
\* speech aggregates across the fused windows.
C19_Original ==
    fuse_pc = "done" =>
        fused.speech_quality_metrics = WindowSpeechMeans(fused.fused_feature_vectors)

\* C19: the session speechQualityMetrics (averagePitch, averagePauseDuration,
\* speakingRateWpm, prosodyScore) are the means of pitch, pause_duration,
\* speaking_rate and prosody.log_mel_std over the audio segments passed in,
\* each segment counted once whatever windows it overlaps, and are all 0 when
\* there is no audio segment; there is always at least one window.
C19_SegmentMeans ==
    fuse_pc = "done" =>
        /\ fused.speech_quality_metrics = SegmentSpeechMeans(audio_segment_features)
        /\ audio_segment_features = <<>> =>
               \A k \in DOMAIN fused.speech_quality_metrics :
                   fused.speech_quality_metrics[k] = Zero
        /\ Len(fused.fused_feature_vectors) >= 1

\* two audio segments, one of them in several windows: the session's mean
\* pitch is not the mean of the windows' mean pitches
C19_Witness ==
    /\ fuse_pc = "done" /\ Len(audio_segment_features) >= 2
    /\ Len(fused.fused_feature_vectors) >= 2
    /\ fused.speech_quality_metrics.averagePitch =
           SegmentSpeechMeans(audio_segment_features).averagePitch
    /\ fused.speech_quality_metrics.averagePitch #
           WindowSpeechMeans(fused.fused_feature_vectors).averagePitch

\* what the claim says of the labels; relevance(x) is the textRelevanceScore
\* of a window whose mean semantic relevance is x
LabelsFollowWindows(relevance(_)) ==
    fuse_pc = "done" =>
        /\ Len(fused.segment_labels) = Len(fused.fused_feature_vectors)
        /\ \A n \in 1..Len(fused.segment_labels) :
               LET label == fused.segment_labels[n]
                   window == fused.fused_feature_vectors[n]
               IN  /\ label.segmentId = <<"segment_", n>>
                   /\ label.label = <<"Question Segment ", n>>
                   /\ label.startTime = window.startTime
                   /\ label.endTime = window.endTime
                   /\ label.textRelevanceScore =
                          relevance(window.textScores.semantic_relevance)

\* C20 as stated: textRelevanceScore is the window's mean semantic relevance
\* times 100 for every relevance in [-1, 1].
C20_Original == LabelsFollowWindows(LAMBDA x : QMul(x, Hundred))

\* C20: the aggregator emits exactly one segment label per fused window, in
\* window order, the n-th (counted from 1) with segmentId "segment_n", label
\* "Question Segment n" and the window's start and end times; its
\* textRelevanceScore is the window's mean semantic relevance clamped to
\* [0, 1], times 100, rounded to 2 decimals, so a negative relevance gives 0.
C20_ClampedRelevance ==
    LabelsFollowWindows(LAMBDA x : QRound(QMul(QMax(Zero, QMin(One, x)), Hundred), 2))

\* a window whose mean semantic relevance is negative was labelled with 0
C20_Witness ==
    /\ fuse_pc = "done"
    /\ \E n \in 1..Len(fused.segment_labels) :
           /\ QLt(fused.fused_feature_vectors[n].textScores.semantic_relevance, Zero)
           /\ fused.segment_labels[n].textRelevanceScore = Zero
           /\ fused.segment_labels[n].segmentId = <<"segment_", n>>

-----------------------------------------------------------------------------
(* scoring/rubric.py: map_scores_to_rubric called on dicts of its caller    *)

\* the values a key of either dict can hold; 84.996 and 69.999 lie within
\* half a hundredth below a threshold
MapValues ==
    {None, Zero, Q(-5, 1), Q(69999, 1000), Q(84996, 1000), Q(85, 1), Q(140, 1)}

\* the keys read first, second and last by the four chains
MapPrimaryKeys ==
    [summary |-> {"communicationEffectiveness", "overallPerformanceScore",
                  "engagementScore"},
     advanced |-> {"interviewComprehension"}]

MapFallbackKeys ==
    [summary |-> {"contentRelevanceScore"},
     advanced |-> {"communicationClarity", "overallPerformance", "engagement"}]

MapDefaultKeys ==
    [summary |-> {"speechFluency", "emotionalStability"}, advanced |-> {}]

\* the dict that holds, of the keys read first, second and last, the ones in
\* present, with the values primary, fallback and default
MapDict(which, present, primary, fallback, default) ==
    LET keys == (IF "primary" \in present THEN MapPrimaryKeys[which] ELSE {})
                    \cup (IF "fallback" \in present THEN MapFallbackKeys[which] ELSE {})
                    \cup (IF "default" \in present THEN MapDefaultKeys[which] ELSE {})
    IN  [key \in keys |->
            IF key \in MapPrimaryKeys[which] THEN primary
            ELSE IF key \in MapFallbackKeys[which] THEN fallback
            ELSE default]

InitMap ==
    /\ \E present \in SUBSET {"primary", "fallback", "default"} :
       \E primary \in MapValues, fallback \in MapValues, default \in MapValues :
           /\ map_summary = MapDict("summary", present, primary, fallback, default)
           /\ map_advanced = MapDict("advanced", present, primary, fallback, default)
    /\ map_pc = "call" /\ map_evaluation = NoRecord
    /\ video_features = <<>> /\ audio_segment_features = <<>>
    /\ text_segment_features = <<>> /\ window_size_seconds = Zero
    /\ FuseIdle
    /\ ScoreIdle
    /\ AdvIdle
    /\ AuditorsNew
    /\ RubricIdle
    /\ RaceIdle
    /\ TwiceIdle
    /\ StoreIdle
    /\ BandIdle
    /\ JobIdle
    /\ PipeIdle

MapScoresToRubric ==
    /\ map_pc = "call"
    /\ map_evaluation' = map_scores_to_rubric(map_summary, map_advanced)
    /\ map_pc' = "done"
    /\ UNCHANGED <<map_summary, map_advanced>>

NextMap ==
    /\ MapScoresToRubric
    /\ UNCHANGED <<fuseVars, scoreVars, advVars, neutralVars, biasVars, rubricVars,
                   raceVars, twiceVars, storeVars, bandVars, jobVars, pipeVars>>

SpecMap == InitMap /\ [][NextMap]_vars

\* the priority chain of each dimension: where each of its three values is
\* read from
MapChains ==
    [communication |-> << <<"summary", "communicationEffectiveness">>,
                          <<"advanced", "communicationClarity">>,
                          <<"summary", "speechFluency">> >>,
     technical_clarity |-> << <<"advanced", "interviewComprehension">>,
                              <<"summary", "contentRelevanceScore">>,
                              <<"summary", "speechFluency">> >>,
     behavioral_response |-> << <<"summary", "overallPerformanceScore">>,
                                <<"advanced", "overallPerformance">>,
                                <<"summary", "emotionalStability">> >>,
     engagement |-> << <<"summary", "engagementScore">>,
                       <<"advanced", "engagement">>,
                       <<"constant", "50">> >>]

\* the value a link of a chain reads, None when it is missing
MapChainValue(link) ==
    IF link[1] = "constant" THEN Q(50, 1)
    ELSE Get(IF link[1] = "summary" THEN map_summary ELSE map_advanced, link[2], None)

MapLabels == {"Excellent", "Good", "Needs Improvement"}

\* C21: the mapper returns the four dimensions, each with one of the three
\* labels and a descriptor, and the score of a dimension is the first
\* non-missing value of its chain, clamped to [0, 100] (and rounded to two
\* decimals as every reported score is); a primary value of 0 is not missing
C21_PriorityChains ==
    map_pc = "done" =>
        /\ DOMAIN map_evaluation = DOMAIN MapChains
        /\ \A dimension \in DOMAIN MapChains :
            LET entry == map_evaluation[dimension]
                chain == MapChains[dimension]
            IN  /\ entry.level \in MapLabels
                /\ entry.descriptor # <<>>
                /\ \A i \in 1..3 :
                       (/\ MapChainValue(chain[i]) # None
                        /\ \A j \in 1..(i - 1) : MapChainValue(chain[j]) = None)
                       => entry.score
                            = QRound(QMax(Zero, QMin(Hundred, MapChainValue(chain[i]))), 2)

\* a call whose summary holds engagementScore 0 and whose advanced scores hold
\* engagement 85: the dimension is scored 0
C21_Witness ==
    /\ map_pc = "done"
    /\ Get(map_summary, "engagementScore", None) = Zero
    /\ Get(map_advanced, "engagement", None) = Q(85, 1)
    /\ map_evaluation.engagement.score = Zero

\* the level the thresholds of the rubric give a reported score
LevelOfReported(score) ==
    IF QLe(Q(85, 1), score) THEN "Excellent"
    ELSE IF QLe(Q(70, 1), score) THEN "Good"
    ELSE "Needs Improvement"

-----------------------------------------------------------------------------
(* analysis/multimodal_fusion.py: the feedback summary of a fused session   *)

\* the four threshold checks: the summary score compared with 70 and the
\* sentence added on either side
FourChecks ==
    { [score |-> "engagementScore",
       strength |-> "Strong engagement maintained across most of the interview.",
       improvement |-> "Increase on-camera engagement and maintain steadier eye contact."],
      [score |-> "confidenceScore",
       strength |-> "Confident delivery with good visual presence.",
       improvement |-> "Boost confidence by reducing hesitation and improving posture consistency."],
      [score |-> "speechFluency",
       strength |-> "Speech fluency is consistent with a professional pace.",
       improvement |-> "Work on pacing and reducing long pauses between key points."],
      [score |-> "emotionalStability",
       strength |-> "Emotional stability appears steady and composed.",
       improvement |-> "Aim for steadier emotional tone during challenging answers."] }

CheckStrengths ==
    {check.strength : check \in
        {c \in FourChecks : QLe(QInt(70), fused.summary_scores[c.score])}}

CheckImprovements ==
    {check.improvement : check \in
        {c \in FourChecks : QLt(fused.summary_scores[c.score], QInt(70))}}

\* the two rules that read a metric instead of a summary score
EyeContactStrength ==
    IF QLt(Q(3, 4), fused.engagement_metrics.eyeContactRatio)
    THEN {"Excellent eye contact contributes to credibility."} ELSE {}

PauseImprovement ==
    IF QLt(Q(4, 5), fused.speech_quality_metrics.averagePauseDuration)
    THEN {"Shorten pauses by practicing concise response structures."} ELSE {}

SeqRange(s) == {s[i] : i \in DOMAIN s}

\* a returned list holds 1 to 3 different sentences out of those contributed,
\* as many of them as the cap allows, and the fallback exactly when none is
\* contributed
ListBuiltFrom(list, contributed, fallback) ==
    /\ Len(list) >= 1 /\ Len(list) <= 3
    /\ Cardinality(SeqRange(list)) = Len(list)
    /\ IF contributed = {} THEN list = <<fallback>>
       ELSE /\ SeqRange(list) \subseteq contributed
            /\ Len(list) = (IF Cardinality(contributed) < 3
                            THEN Cardinality(contributed) ELSE 3)

\* C22 as stated: only the four threshold checks contribute to the two lists.
C22_Original ==
    fuse_pc = "done" =>
        /\ ListBuiltFrom(fused.feedback_summary.strengths, CheckStrengths,
               "Consistent participation across recorded segments.")
        /\ ListBuiltFrom(fused.feedback_summary.improvements, CheckImprovements,
               "Continue refining storytelling depth for stronger impact.")

\* C22: the lists are built from the four threshold checks and two further
\* rules, appended after them: an improvement when averagePauseDuration is
\* above 0.8 and a strength when eyeContactRatio is above 0.75; each list
\* holds 1 to 3 strings, the fallback exactly when nothing was contributed
C22_SixRules ==
    fuse_pc = "done" =>
        /\ ListBuiltFrom(fused.feedback_summary.strengths,
               CheckStrengths \cup EyeContactStrength,
               "Consistent participation across recorded segments.")
        /\ ListBuiltFrom(fused.feedback_summary.improvements,
               CheckImprovements \cup PauseImprovement,
               "Continue refining storytelling depth for stronger impact.")
        /\ Cardinality(CheckStrengths) >= 3 =>
               SeqRange(fused.feedback_summary.strengths) \subseteq CheckStrengths
        /\ Cardinality(CheckImprovements) >= 3 =>
               SeqRange(fused.feedback_summary.improvements) \subseteq CheckImprovements

\* a session whose strengths include the eye-contact sentence
C22_Witness ==
    /\ fuse_pc = "done"
    /\ EyeContactStrength \subseteq SeqRange(fused.feedback_summary.strengths)
    /\ EyeContactStrength # {}

-----------------------------------------------------------------------------
(* analysis/multimodal_fusion.py: the session engagement metrics            *)

\* 1 / (1 + |yaw| + |pitch|) of a frame
FrameHeadStability(frame) ==
    QDiv(One, QAdd(One, QAdd(QAbs(HeadPoseOf(frame, "yaw")),
                             QAbs(HeadPoseOf(frame, "pitch")))))

\* clamp01(0.5*eye + 0.3*head + 0.2*min(1, rate/140))
OverallEngagementClosedForm(eye, head, rate) ==
    QMax(Zero, QMin(One,
        QAdd(QAdd(QMul(Q(1, 2), eye), QMul(Q(3, 10), head)),
             QMul(Q(1, 5), QMin(One, QDiv(rate, QInt(140)))))))

\* C23: eyeContactRatio is the mean eye contact over the frames (0 without
\* frames), avgHeadStability the mean of 1/(1+|yaw|+|pitch|) over the frames,
\* avgSpeakingRateWpm the mean of the windows' speaking rates over all windows
\* (a window without audio counts with 0), and overallEngagement is
\* clamp01(0.5*eyeContactRatio + 0.3*avgHeadStability
\*         + 0.2*min(1, avgSpeakingRateWpm/140))
C23_EngagementMetrics ==
    fuse_pc = "done" =>
        LET metrics == fused.engagement_metrics
            windows == fused.fused_feature_vectors
        IN  /\ metrics.eyeContactRatio =
                   MeanOver(video_features, LAMBDA frame : Get(frame, "eye_contact", Zero))
            /\ metrics.avgHeadStability = MeanOver(video_features, FrameHeadStability)
            /\ metrics.avgSpeakingRateWpm =
                   MeanOver(windows, LAMBDA w : w.speechFeatures.speaking_rate)
            /\ audio_segment_features = <<>> =>
                   \A k \in 1..Len(windows) : windows[k].speechFeatures.speaking_rate = Zero
            /\ metrics.overallEngagement =
                   OverallEngagementClosedForm(metrics.eyeContactRatio,
                       metrics.avgHeadStability, metrics.avgSpeakingRateWpm)

\* one frame with eye contact 1 and no head movement, no audio: eye contact
\* ratio 1.0 and overall engagement 0.8
C23_Witness ==
    /\ fuse_pc = "done"
    /\ Len(video_features) = 1 /\ audio_segment_features = <<>>
    /\ FrameHeadStability(video_features[1]) = One
    /\ fused.engagement_metrics.eyeContactRatio = One
    /\ fused.engagement_metrics.overallEngagement = Q(4, 5)

-----------------------------------------------------------------------------
(* scoring/fairness.py: the bands of one sample of the neutral auditor      *)

\* eye contact as a ratio or as a percentage, None for a missing key
BandEyeContacts ==
    {None, Zero, Q(11, 25), Q(9, 20), Q(3, 4), One, Q(449, 10), Q(45, 1), Q(75, 1),
     Hundred}

BandSpeakingRates == {None, Zero, Q(109, 1), Q(110, 1), Q(160, 1), Q(161, 1)}

BandPauses == {None, Zero, Q(1, 4), Q(1, 2), Q(3, 4), One, Q(2, 1)}

\* segment labels: none, one label, and two labels whose mean is 60
BandLabelLists ==
    { <<>>,
      << [textRelevanceScore |-> Q(59, 1)] >>,
      << [textRelevanceScore |-> Q(159, 2)] >>,
      << [textRelevanceScore |-> Q(80, 1)] >>,
      << [textRelevanceScore |-> Q(100, 1)], [textRelevanceScore |-> Q(20, 1)] >> }

\* the dict that holds each key whose value is not None
DictOf(keys, values) ==
    [key \in {k \in DOMAIN values : k \in keys /\ values[k] # None} |-> values[key]]

InitBand ==
    /\ \E eye \in BandEyeContacts : band_metrics = DictOf({"eyeContactRatio"}, [eyeContactRatio |-> eye])
    /\ \E rate \in BandSpeakingRates, pause \in BandPauses :
           band_speech = DictOf({"speakingRateWpm", "averagePauseDuration"},
                                [speakingRateWpm |-> rate, averagePauseDuration |-> pause])
    /\ band_labels \in BandLabelLists
    /\ band_pc = "call" /\ band_groups = NoRecord
    /\ video_features = <<>> /\ audio_segment_features = <<>>
    /\ text_segment_features = <<>> /\ window_size_seconds = Zero
    /\ FuseIdle
    /\ ScoreIdle
    /\ AdvIdle
    /\ AuditorsNew
    /\ RubricIdle
    /\ RaceIdle
    /\ TwiceIdle
    /\ StoreIdle
    /\ MapIdle
    /\ JobIdle
    /\ PipeIdle

\* lines 23-39 of analyze: the feature groups of the sample it appends
BandSample ==
    /\ band_pc = "call"
    /\ band_groups' =
           FairnessSample(0, NoRecord, band_metrics, band_speech, band_labels).groups
    /\ band_pc' = "done"
    /\ UNCHANGED <<band_metrics, band_speech, band_labels>>

NextBand ==
    /\ BandSample
    /\ UNCHANGED <<fuseVars, scoreVars, advVars, neutralVars, biasVars, rubricVars,
                   raceVars, twiceVars, storeVars, mapVars, jobVars, pipeVars>>

SpecBand == InitBand /\ [][NextBand]_vars

\* what the sample was banded from: eye contact in percent, rate, pause and
\* mean relevance, 0 for what is missing
BandedEyePercent ==
    LET eye == Get(band_metrics, "eyeContactRatio", Zero)
    IN  IF QLe(eye, One) THEN QMul(eye, Hundred) ELSE eye
BandedRate == Get(band_speech, "speakingRateWpm", Zero)
BandedPause == Get(band_speech, "averagePauseDuration", Zero)
BandedRelevance == MeanOver(band_labels, LAMBDA item : item.textRelevanceScore)

\* the eye-contact, pause and relevance bands as the claim gives them
ThreeBandsAgree ==
    /\ band_groups.eyeContactBand =
           (IF QLe(Q(75, 1), BandedEyePercent) THEN "high_eye_contact"
            ELSE IF QLe(Q(45, 1), BandedEyePercent) THEN "medium_eye_contact"
            ELSE "low_eye_contact")
    /\ band_groups.pauseBand =
           (IF QLe(BandedPause, Zero) THEN "minimal_pause"
            ELSE IF QLt(BandedPause, Q(1, 2)) THEN "short_pause"
            ELSE IF QLt(BandedPause, One) THEN "moderate_pause"
            ELSE "long_pause")
    /\ band_groups.contentRelevanceBand =
           (IF QLe(Q(80, 1), BandedRelevance) THEN "high_relevance"
            ELSE IF QLe(Q(60, 1), BandedRelevance) THEN "medium_relevance"
            ELSE "low_relevance")

\* C24 as stated: the speaking-rate band is slow below 110, optimal from 110
\* to 160 and fast above 160, so always one of these three.
C24_Original ==
    band_pc = "done" =>
        /\ DOMAIN band_groups =
               {"eyeContactBand", "speakingRateBand", "pauseBand", "contentRelevanceBand"}
        /\ ThreeBandsAgree
        /\ band_groups.speakingRateBand =
               (IF QLt(BandedRate, Q(110, 1)) THEN "slow_rate"
                ELSE IF QLe(BandedRate, Q(160, 1)) THEN "optimal_rate"
                ELSE "fast_rate")
        /\ band_groups.speakingRateBand \in {"slow_rate", "optimal_rate", "fast_rate"}

\* C24: every sample has one bucket in each of the four bands: eye contact
\* high/medium/low at >= 75 / >= 45 percent, pause minimal/short/moderate/long
\* at <= 0 / < 0.5 / < 1.0 / >= 1.0, relevance high/medium/low at >= 80 / >= 60,
\* and speaking rate unknown/slow/optimal/fast at <= 0 / < 110 / <= 160 / > 160:
\* a sample without a positive speaking rate is in the unknown bucket
C24_FourRateBuckets ==
    band_pc = "done" =>
        /\ DOMAIN band_groups =
               {"eyeContactBand", "speakingRateBand", "pauseBand", "contentRelevanceBand"}
        /\ ThreeBandsAgree
        /\ band_groups.speakingRateBand =
               (IF QLe(BandedRate, Zero) THEN "unknown_rate"
                ELSE IF QLt(BandedRate, Q(110, 1)) THEN "slow_rate"
                ELSE IF QLe(BandedRate, Q(160, 1)) THEN "optimal_rate"
                ELSE "fast_rate")

\* a sample whose speech metrics hold no speaking rate
C24_Witness ==
    /\ band_pc = "done"
    /\ "speakingRateWpm" \notin DOMAIN band_speech
    /\ band_groups.speakingRateBand = "unknown_rate"
    /\ band_groups.pauseBand = "moderate_pause"

-----------------------------------------------------------------------------
(* analysis/multimodal_fusion.py: the dominant gaze of a window             *)

\* the gaze label of the j-th frame of a slice
GazeOf(frames, j) == Get(frames[j], "gaze_direction", "unknown")

GazeCount(frames, label) ==
    Cardinality({j \in 1..Len(frames) : GazeOf(frames, j) = label})

\* where a label is first seen in a slice
GazeFirstSeen(frames, label) ==
    CHOOSE j \in 1..Len(frames) :
        /\ GazeOf(frames, j) = label
        /\ \A i \in 1..(j - 1) : GazeOf(frames, i) # label

\* C25: the dominant gaze of a window is a label of one of its frames whose
\* count no other label of the window exceeds, and among the labels with that
\* count the one first seen in frame order; a window without frames has
\* "unknown"
C25_DominantGaze ==
    fuse_pc = "done" =>
        \A k \in 1..Len(slices) :
            LET frames == slices[k].video
                dominant == fused.fused_feature_vectors[k].gazeDirection
                labels == {GazeOf(frames, j) : j \in 1..Len(frames)}
            IN  IF frames = <<>> THEN dominant = "unknown"
                ELSE /\ dominant \in labels
                     /\ \A label \in labels :
                            /\ GazeCount(frames, label) <= GazeCount(frames, dominant)
                            /\ GazeCount(frames, label) = GazeCount(frames, dominant) =>
                                   GazeFirstSeen(frames, dominant)
                                       <= GazeFirstSeen(frames, label)

\* a window with as many frames looking left as looking at the center, the
\* first of them looking left
C25_Witness ==
    /\ fuse_pc = "done"
    /\ \E k \in 1..Len(slices) :
           /\ Len(slices[k].video) = 2
           /\ GazeOf(slices[k].video, 1) = "left"
           /\ GazeOf(slices[k].video, 2) = "center"
           /\ fused.fused_feature_vectors[k].gazeDirection = "left"

-----------------------------------------------------------------------------
(* scoring/advanced_scoring.py: the scores without the encoder              *)

\* the three embeddings predict builds from its arguments
VisionEmbedding == _build_vision_embedding(engagement_metrics, fused_feature_vectors)
AudioEmbedding == _build_audio_embedding(speech_quality_metrics, fused_feature_vectors)
TextEmbedding == _build_text_embedding(segment_labels, fused_feature_vectors)

Clamp100(x) == QMax(Zero, QMin(Hundred, x))

\* the fallback of each score, clamped to [0, 100]
FallbackClosedForm ==
    [engagement |->
         Clamp100(QAdd(QMul(QInt(65), VisionEmbedding[1]),
                       QMul(QInt(35), VisionEmbedding[2]))),
     communicationClarity |->
         Clamp100(QAdd(QMul(QInt(50), AudioEmbedding[1]),
                       QMul(QInt(50), AudioEmbedding[2]))),
     interviewComprehension |->
         Clamp100(QAdd(QMul(QInt(65), TextEmbedding[1]),
                       QMul(QInt(35), TextEmbedding[2]))),
     overallPerformance |->
         Clamp100(QDiv(QMul(QInt(100),
                            QAdd(QAdd(VisionEmbedding[1], AudioEmbedding[1]),
                                 TextEmbedding[1])),
                       QInt(3)))]

\* the score of each regression head on the twelve features
RegressionClosedForm ==
    [key \in AdvancedKeys |->
        HeadPredict(AdvancedHeads[key],
                    VisionEmbedding \o AudioEmbedding \o TextEmbedding).value]

-----------------------------------------------------------------------------
(* services/analysis_queue.py and tasks/analysis_tasks.py: an analysis job  *)
(* between the API process that enqueues it and the worker that runs it     *)

MaxJobs == 2
JobIds == 1..MaxJobs

InitJob ==
    /\ job_status = [j \in JobIds |-> "absent"]
    /\ job_task_id = [j \in JobIds |-> "none"]
    /\ enqueue_pc = [j \in JobIds |-> "start"]
    /\ task_pc = [j \in JobIds |-> "unsent"]
    /\ enqueue_returned = [j \in JobIds |-> "nothing"]
    /\ video_features = <<>> /\ audio_segment_features = <<>>
    /\ text_segment_features = <<>> /\ window_size_seconds = Zero
    /\ FuseIdle
    /\ ScoreIdle
    /\ AdvIdle
    /\ AuditorsNew
    /\ RubricIdle
    /\ RaceIdle
    /\ TwiceIdle
    /\ StoreIdle
    /\ MapIdle
    /\ BandIdle
    /\ PipeIdle

\* _update_analysis_job: one transaction that sets the status of the row, and
\* the task id when one is given; nothing happens when the row is missing
_update_analysis_job(j, status, task_id) ==
    IF job_status[j] = "absent"
    THEN UNCHANGED <<job_status, job_task_id>>
    ELSE /\ job_status' = [job_status EXCEPT ![j] = status]
         /\ job_task_id' = [job_task_id EXCEPT ![j] =
                                IF task_id # "none" THEN task_id ELSE @]

\* enqueue_video_analysis, lines 11-19: the session is looked up and the job
\* row is created as queued, or ValueError is raised for an unknown session
EnqueueCreate(j) ==
    /\ enqueue_pc[j] = "start"
    /\ \E found \in BOOLEAN :
           IF found
           THEN /\ job_status' = [job_status EXCEPT ![j] = "queued"]
                /\ enqueue_pc' = [enqueue_pc EXCEPT ![j] = "created"]
           ELSE /\ enqueue_pc' = [enqueue_pc EXCEPT ![j] = "raised"]
                /\ UNCHANGED job_status
    /\ UNCHANGED <<job_task_id, task_pc, enqueue_returned>>

\* lines 20-24: send_task hands the task to the broker
EnqueueSend(j) ==
    /\ enqueue_pc[j] = "created"
    /\ enqueue_pc' = [enqueue_pc EXCEPT ![j] = "sent"]
    /\ task_pc' = [task_pc EXCEPT ![j] = "sent"]
    /\ UNCHANGED <<job_status, job_task_id, enqueue_returned>>

\* lines 25-27: send_task raised (the broker is unreachable), the job is
\* marked failed and the exception is raised again
EnqueueSendFailed(j) ==
    /\ enqueue_pc[j] = "created"
    /\ _update_analysis_job(j, "failed", "none")
    /\ enqueue_pc' = [enqueue_pc EXCEPT ![j] = "raised"]
    /\ UNCHANGED <<task_pc, enqueue_returned>>

\* line 28: mark_analysis_job_running with the id of the task that was sent
EnqueueMarkRunning(j) ==
    /\ enqueue_pc[j] = "sent"
    /\ _update_analysis_job(j, "running", "enqueue")
    /\ enqueue_pc' = [enqueue_pc EXCEPT ![j] = "marked"]
    /\ UNCHANGED <<task_pc, enqueue_returned>>

\* lines 29-32: the row is read again and returned
EnqueueReturn(j) ==
    /\ enqueue_pc[j] = "marked"
    /\ enqueue_returned' = [enqueue_returned EXCEPT ![j] = job_status[j]]
    /\ enqueue_pc' = [enqueue_pc EXCEPT ![j] = "returned"]
    /\ UNCHANGED <<job_status, job_task_id, task_pc>>

\* run_video_analysis_task, line 9: a worker takes the task and marks the job
\* running
TaskMarkRunning(j) ==
    /\ task_pc[j] = "sent"
    /\ _update_analysis_job(j, "running", "worker")
    /\ task_pc' = [task_pc EXCEPT ![j] = "running"]
    /\ UNCHANGED <<enqueue_pc, enqueue_returned>>

\* lines 10-26: the analysis ran and the job is marked completed
TaskSucceed(j) ==
    /\ task_pc[j] = "running"
    /\ _update_analysis_job(j, "completed", "none")
    /\ task_pc' = [task_pc EXCEPT ![j] = "ended"]
    /\ UNCHANGED <<enqueue_pc, enqueue_returned>>

\* lines 27-29: the analysis raised and the job is marked failed
TaskFail(j) ==
    /\ task_pc[j] = "running"
    /\ _update_analysis_job(j, "failed", "none")
    /\ task_pc' = [task_pc EXCEPT ![j] = "ended"]
    /\ UNCHANGED <<enqueue_pc, enqueue_returned>>

NextJob ==
    /\ \E j \in JobIds :
           \/ EnqueueCreate(j)
           \/ EnqueueSend(j)
           \/ EnqueueSendFailed(j)
           \/ EnqueueMarkRunning(j)
           \/ EnqueueReturn(j)
           \/ TaskMarkRunning(j)
           \/ TaskSucceed(j)
           \/ TaskFail(j)
    /\ UNCHANGED <<fuseVars, scoreVars, advVars, neutralVars, biasVars, rubricVars,
                   raceVars, twiceVars, storeVars, mapVars, bandVars, pipeVars>>

SpecJob == InitJob /\ [][NextJob]_vars

JobFinished(j) == job_status[j] \in {"completed", "failed"}

\* C27: the status of a job that is completed or failed never changes again,
\* however the enqueue call and the worker's task interleave, and once the
\* task has ended and the enqueue call has returned the job is completed or
\* failed
C27_FinishedIsFinal ==
    /\ [][\A j \in JobIds : JobFinished(j) => job_status'[j] = job_status[j]]_vars
    /\ [](\A j \in JobIds :
              (task_pc[j] = "ended" /\ enqueue_pc[j] = "returned") => JobFinished(j))

-----------------------------------------------------------------------------
(* analysis/multimodal_fusion.py: no segment of positive length is lost     *)

\* a segment that starts at or after 0 and ends after it starts
PositiveDuration(seg) == QLe(Zero, seg.start) /\ QLt(seg.start, seg.end)

\* the segment is in the stream's slice of at least one window, and of every
\* window whose interval [cursor, cursor + window size) it overlaps
SegmentKept(seg, stream) ==
    /\ \E k \in 1..Len(slices) : InSlice(slices[k][stream], seg)
    /\ \A k \in 1..Len(slices) :
           QLt(QMax(WinStart(k), seg.start), QMin(WinEnd(k), seg.end))
               => InSlice(slices[k][stream], seg)

\* C29: every audio or text segment with 0 <= start < end is selected into at
\* least one window, and into every window whose half-open interval it
\* overlaps
C29_NoSegmentLost ==
    fuse_pc = "done" =>
        /\ \A i \in 1..Len(audio_segment_features) :
               PositiveDuration(audio_segment_features[i])
                   => SegmentKept(audio_segment_features[i], "audio")
        /\ \A i \in 1..Len(text_segment_features) :
               PositiveDuration(text_segment_features[i])
                   => SegmentKept(text_segment_features[i], "text")

\* a text segment that ends after every frame and audio segment, and is
\* selected into the last window but not into the first
C29_Witness ==
    /\ fuse_pc = "done" /\ Len(slices) >= 2
    /\ \E i \in 1..Len(text_segment_features) :
           /\ PositiveDuration(text_segment_features[i])
           /\ text_segment_features[i].end = max_time
           /\ QLt(_max_time(video_features, audio_segment_features, <<>>), max_time)
           /\ InSlice(slices[Len(slices)].text, text_segment_features[i])
           /\ ~InSlice(slices[1].text, text_segment_features[i])

-----------------------------------------------------------------------------
(* services/analysis_pipeline.py: analysis runs on the same aligned         *)
(* features, for sessions of different context, in one process              *)

MaxRuns == 2

\* the aligned features are those of one fuse_multimodal_features result; the
\* process starts with empty auditor histories and without torch
InitPipeline ==
    /\ engagement_metrics \in EngagementMetricsInputs
    /\ emotion_trajectory \in Streams(PointCatalogue, 1)
    /\ speech_quality_metrics \in SpeechQualityInputs
    /\ segment_labels \in {<<>>, <<LabelCatalogue[1]>>}
    /\ fused_feature_vectors \in Streams(WindowCatalogue, 1)
    /\ timeline_arrays = [speechTimeline |-> << [pitch |-> Q(200, 1)], [pitch |-> Q(180, 1)] >>]
    /\ score_pc = "start" /\ session_scores = NoRecord
    /\ torch_available = FALSE /\ adv_pc = "start" /\ advanced_scores = NoRecord
    /\ pipe_contexts = <<>> /\ pipe_summary = <<>> /\ pipe_advanced = <<>>
    /\ video_features = <<>> /\ audio_segment_features = <<>>
    /\ text_segment_features = <<>> /\ window_size_seconds = Zero
    /\ FuseIdle
    /\ AuditorsNew
    /\ RubricIdle
    /\ RaceIdle
    /\ TwiceIdle
    /\ StoreIdle
    /\ MapIdle
    /\ BandIdle
    /\ JobIdle

\* lines 66-91 for a session whose dict is session_context, once the scores
\* are computed: the bias auditor and then the fairness analyzer are called
\* on them, and the result carries the two dicts as they are after those calls
AuditAndReport(session_context, score_payload, advanced) ==
    /\ session_scores' = score_payload
    /\ IF score_payload.status # "returned"
       THEN \* compute_session_scores raised: nothing after line 66 runs
            /\ pipe_summary' = Append(pipe_summary, [status |-> "raised"])
            /\ pipe_advanced' = Append(pipe_advanced, [status |-> "raised"])
            /\ UNCHANGED <<bias_history, bias_audit, neutral_history,
                           fairness_report, advanced_scores>>
       ELSE /\ Audit(session_context, score_payload.summaryScores)
            /\ pipe_summary' =
                   Append(pipe_summary,
                          SummaryScoresAfterAudit(score_payload.summaryScores))
            /\ advanced_scores' = advanced
            /\ IF advanced.status # "returned"
               THEN /\ pipe_advanced' = Append(pipe_advanced, [status |-> "raised"])
                    /\ UNCHANGED <<neutral_history, fairness_report>>
               ELSE /\ Analyze(Len(pipe_contexts) + 1, advanced, engagement_metrics,
                               speech_quality_metrics, segment_labels)
                    /\ pipe_advanced' =
                           Append(pipe_advanced, CoreScoresAfterAnalyze(advanced))

\* lines 59-91: one run for a session whose dict is session_context
ExecuteVideoAnalysis(session_context) ==
    /\ Len(pipe_contexts) < MaxRuns
    /\ pipe_contexts' = Append(pipe_contexts, session_context)
    /\ AuditAndReport(session_context,
           compute_session_scores(engagement_metrics, emotion_trajectory,
                                  speech_quality_metrics, segment_labels,
                                  fused_feature_vectors, timeline_arrays),
           AdvancedPredict(engagement_metrics, speech_quality_metrics, segment_labels,
                           fused_feature_vectors, torch_available,
                           <<Zero, Zero, Zero, Zero>>))
    /\ UNCHANGED <<engagement_metrics, emotion_trajectory, speech_quality_metrics,
                   segment_labels, fused_feature_vectors, timeline_arrays, score_pc,
                   torch_available, adv_pc, neutral_log, bias_log,
                   caller_core_scores, caller_summary_scores>>

\* the sessions analysed: one with a gender, one with an age and a camera
\* brand, one whose only attribute with a value is the network quality
PipelineSessions == {1, 4, 5}

NextPipeline ==
    /\ \E k \in PipelineSessions : ExecuteVideoAnalysis(BiasInputs[k].session_context)
    /\ UNCHANGED <<fuseVars, rubricVars, raceVars, twiceVars, storeVars, mapVars,
                   bandVars, jobVars>>

SpecPipeline == InitPipeline /\ [][NextPipeline]_vars

====
